---- MODULE Spec2Model ----
(***************************************************************************)
(* Model of the comment ingestion and classification pipeline:             *)
(*   - the classification batch (comment_processing_service.py,            *)
(*     semantic_search_service.py),                                        *)
(*   - the paginated crawl with its dedup (raw_comment_update_service_     *)
(*     sync.py),                                                           *)
(*   - the scheduled crawl and its target selection                        *)
(*     (scheduled_comment_tasks.py),                                       *)
(*   - the job ledger lookup-or-create (scheduled_*_tasks.py).             *)
(* The relational store is the only shared state; every commit is one      *)
(* atomic step.                                                            *)
(***************************************************************************)
EXTENDS Integers, Sequences, FiniteSets, TLC

VARIABLES
    raw_comments,        \* table raw_comments: sequence of rows, raw_comment_id = index
    processed_comments,  \* table processed_comments: sequence of rows (append-only)
    proc,                \* per worker: the process_batch_comments invocation
    vehicles,            \* table vehicle_channel_details: id -> row
    upstream,            \* the remote listing: vehicle -> sequence of pages
    crawl,               \* per crawler: the crawl_new_comments invocation
    sched,               \* the scheduled_comment_crawl task
    processing_jobs,     \* table processing_jobs: sequence of rows, job_id = index
    ledger,              \* the calls of the lookup-or-create step and their results
    tasks,               \* the background tasks sent to the queue, by task id
    responses,           \* the answers of the vehicle-update endpoints, in order
    product_features,    \* table product_features: the set of its rows
    search_service,      \* per worker process: the object semantic_search_service
    requests             \* the vehicle-update requests, each with its open transaction

vars == <<raw_comments, processed_comments, proc, vehicles, upstream, crawl,
          sched, processing_jobs, ledger, tasks, responses,
          product_features, search_service, requests>>

procVars == <<raw_comments, processed_comments, proc>>
crawlVars == <<vehicles, upstream, crawl, sched>>
ledgerVars == <<processing_jobs, ledger, tasks, responses>>
featureVars == <<product_features, search_service>>

----------------------------------------------------------------------------
(* Bounds *)

NumComments == 2      \* rows of raw_comments in the classification model
MaxLimit == 2         \* largest limit passed to process_batch_comments
MaxDistance == 3      \* distances returned by the similarity engine: 0..MaxDistance

MaxTokens == 3        \* pieces a generated review body is assembled from
MaxRuns == 2          \* crawl_new_comments invocations per crawler
MaxCalls == 3         \* executions of the lookup-or-create step of the job ledger
MaxVehicles == 4      \* largest max_vehicles passed to scheduled_comment_crawl

Workers == {1, 2}
Crawlers == {1, 2}
VehicleIds == {1, 2}

----------------------------------------------------------------------------
(* Sequence helpers *)

Range(s) == {s[i] : i \in 1..Len(s)}

Min(a, b) == IF a < b THEN a ELSE b

----------------------------------------------------------------------------
(* Text: a string is a sequence of characters; "[" stands for the opening  *)
(* bracket of a section header, "]" for the closing one, " " for blank.    *)

\* str.strip(): drop leading and trailing blanks
RECURSIVE LStrip(_)
LStrip(s) == IF s # <<>> /\ Head(s) = " " THEN LStrip(Tail(s)) ELSE s

RECURSIVE RStrip(_)
RStrip(s) ==
    IF s # <<>> /\ s[Len(s)] = " " THEN RStrip(SubSeq(s, 1, Len(s) - 1)) ELSE s

Strip(s) == RStrip(LStrip(s))

\* position of the first "]" at or after i, 0 if there is none
RECURSIVE FirstClose(_, _)
FirstClose(text, i) ==
    IF i > Len(text) THEN 0
    ELSE IF text[i] = "]" THEN i
    ELSE FirstClose(text, i + 1)

\* end of a match of the pattern  [ , one or more non-] , ]  starting at i; 0 if none
HeaderEnd(text, i) ==
    IF text[i] = "["
    THEN LET j == FirstClose(text, i + 1) IN IF j > i + 1 THEN j ELSE 0
    ELSE 0

\* re.split with one capturing group: text, header, text, header, ..., text
RECURSIVE ReSplit(_, _, _)
ReSplit(text, i, segStart) ==
    IF i > Len(text) THEN << SubSeq(text, segStart, Len(text)) >>
    ELSE LET j == HeaderEnd(text, i) IN
         IF j # 0
         THEN << SubSeq(text, segStart, i - 1), SubSeq(text, i, j) >>
              \o ReSplit(text, j + 1, j + 1)
         ELSE ReSplit(text, i + 1, segStart)

\* the default section title given to text before the first header
OpeningTitle == << "opening" >>

MinChunkLen == 5

RECURSIVE ChunksOfParts(_, _)
ChunksOfParts(parts, current_section_title) ==
    IF parts = <<>> THEN <<>>
    ELSE LET part == Strip(Head(parts)) IN
         IF part = <<>> THEN ChunksOfParts(Tail(parts), current_section_title)
         ELSE IF part[1] = "[" /\ part[Len(part)] = "]"
              THEN ChunksOfParts(Tail(parts), part)
         ELSE IF Len(part) > MinChunkLen
              THEN << [source_section |-> current_section_title, chunk_text |-> part] >>
                   \o ChunksOfParts(Tail(parts), current_section_title)
         ELSE ChunksOfParts(Tail(parts), current_section_title)

split_comment_into_chunks(comment_text) ==
    ChunksOfParts(ReSplit(comment_text, 1, 1), OpeningTitle)

\* the review bodies the model draws from
SampleTexts ==
    { <<>>,
      << "a", "b", "c", "d", "e" >>,
      << "a", "b", "c", "d", "e", "f" >>,
      << "[", "s", "]", "a", "b", "c", "d", "e", "f" >>,
      << "a", "b", "c", "d", "e", "f", "[", "s", "]", " ", "g", "h", "i", "j", "k", "l" >> }

----------------------------------------------------------------------------
(* Classification of one comment's chunks *)

\* settings.SEMANTIC_SIMILARITY_THRESHOLD, in the integer distance units of the model
SEMANTIC_SIMILARITY_THRESHOLD == 2

Features == {1}

\* what similarity_search_with_score(chunk_text, k=1) returns: a list of at
\* most one (document, score) pair
SearchResults ==
    { <<>> } \cup { << [product_feature_id |-> f, score |-> d] >> :
                     f \in Features, d \in 0..MaxDistance }

Accept_inclusive(score) == score <= SEMANTIC_SIMILARITY_THRESHOLD

\* the threshold test of process_comment_chunks
Accept(score) == score < SEMANTIC_SIMILARITY_THRESHOLD

\* process_comment_chunks after the split: search[k] is the engine's answer
\* for chunks[k]
RECURSIVE ChunkResults(_, _, _, _)
ChunkResults(raw_comment_id, chunks, search, k) ==
    IF k > Len(chunks) THEN <<>>
    ELSE LET rest == ChunkResults(raw_comment_id, chunks, search, k + 1) IN
         IF search[k] # <<>> /\ Accept(search[k][1].score)
         THEN << [raw_comment_id |-> raw_comment_id,
                  product_feature_id |-> search[k][1].product_feature_id,
                  feature_similarity_score |-> search[k][1].score,
                  comment_chunk_text |-> chunks[k].chunk_text,
                  source_section |-> chunks[k].source_section] >> \o rest
         ELSE rest

process_comment_chunks(raw_comment_id, comment_text, search) ==
    ChunkResults(raw_comment_id, split_comment_into_chunks(comment_text), search, 1)

----------------------------------------------------------------------------
(* The store operations of the classification batch *)

Terminal == {"COMPLETED", "FAILED", "SKIPPED"}

\* get_pending_comments: the first `limit` rows in state NEW, in storage order
RECURSIVE PendingFrom(_, _, _)
PendingFrom(table, id, limit) ==
    IF id > Len(table) \/ limit = 0 THEN <<>>
    ELSE IF table[id].processing_status = "NEW"
         THEN << id >> \o PendingFrom(table, id + 1, limit - 1)
         ELSE PendingFrom(table, id + 1, limit)

get_pending_comments_unlimited(table, limit) == PendingFrom(table, 1, Len(table))

get_pending_comments(table, limit) == PendingFrom(table, 1, limit)

update_comment_status_uncommitted(table, raw_comment_id, status) == table

\* update_comment_status: db.get, assignment, commit; a missing row is only logged
update_comment_status(table, raw_comment_id, status) ==
    IF raw_comment_id \in DOMAIN table
    THEN [table EXCEPT ![raw_comment_id].processing_status = status]
    ELSE table

RECURSIVE ProcessedRows(_, _)
ProcessedRows(processing_results, job_id) ==
    IF processing_results = <<>> THEN <<>>
    ELSE << [raw_comment_id_fk |-> Head(processing_results).raw_comment_id,
             product_feature_id_fk |-> Head(processing_results).product_feature_id,
             feature_similarity_score |-> Head(processing_results).feature_similarity_score,
             job_id_fk |-> job_id,
             comment_chunk_text |-> Head(processing_results).comment_chunk_text] >>
         \o ProcessedRows(Tail(processing_results), job_id)

\* the results of a comment that has no row yet
RECURSIVE WithoutRow(_, _)
WithoutRow(table, processing_results) ==
    IF processing_results = <<>> THEN <<>>
    ELSE (IF \E r \in DOMAIN table :
                table[r].raw_comment_id_fk = Head(processing_results).raw_comment_id
          THEN <<>> ELSE << Head(processing_results) >>)
         \o WithoutRow(table, Tail(processing_results))

save_processed_comments_once(table, processing_results, job_id) ==
    table \o ProcessedRows(WithoutRow(table, processing_results), job_id)

\* save_processed_comments: all rows are added in one session and committed once
save_processed_comments(table, processing_results, job_id) ==
    table \o ProcessedRows(processing_results, job_id)

----------------------------------------------------------------------------
(* process_batch_comments, one invocation per worker *)

IdleProc ==
    [pc |-> "idle", job_id |-> 0, pending_comments |-> <<>>, i |-> 0,
     results |-> <<>>, search |-> <<>>, attempted |-> <<>>,
     processed_count |-> 0, failed_count |-> 0, skipped_count |-> 0,
     total_results |-> 0, summary |-> <<>>]

Summary(p) ==
    << [total_comments |-> Len(p.pending_comments),
        processed_count |-> p.processed_count,
        failed_count |-> p.failed_count,
        skipped_count |-> p.skipped_count,
        total_results |-> p.total_results] >>

\* end of one iteration of the loop over pending_comments
NextComment(p) ==
    IF p.i = Len(p.pending_comments)
    THEN LET q == [p EXCEPT !.pc = "done"] IN [q EXCEPT !.summary = Summary(q)]
    ELSE [p EXCEPT !.pc = "update_processing", !.i = @ + 1,
                   !.results = <<>>, !.search = <<>>]

BatchExcept_abort(p) == [p EXCEPT !.pc = "raised"]

\* the except clause of the loop in process_batch_comments
BatchExcept(p) == NextComment([p EXCEPT !.failed_count = @ + 1])

CurrentComment(w) == proc[w].pending_comments[proc[w].i]

\* process_batch_comments(limit) up to the start of its loop
ProcessBatchBegin(w, limit) ==
    /\ proc[w].pc = "idle"
    /\ \/ \* get_pending_comments raises: logged and re-raised
          proc' = [proc EXCEPT ![w].pc = "raised"]
       \/ LET pending == get_pending_comments(raw_comments, limit)
              p == [proc[w] EXCEPT !.job_id = w, !.pending_comments = pending]
          IN proc' = [proc EXCEPT ![w] =
                        IF pending = <<>>
                        THEN [p EXCEPT !.pc = "done", !.summary = Summary(p)]
                        ELSE [p EXCEPT !.pc = "update_processing", !.i = 1]]
    /\ UNCHANGED <<raw_comments, processed_comments>>

ProcessBatchStart(w) == \E limit \in 1..MaxLimit : ProcessBatchBegin(w, limit)

\* process_single_comment: the status update to PROCESSING
UpdateProcessing(w) ==
    /\ proc[w].pc = "update_processing"
    /\ LET p == [proc[w] EXCEPT !.attempted = Append(@, CurrentComment(w))] IN
         \/ /\ raw_comments' = update_comment_status(raw_comments, CurrentComment(w), "PROCESSING")
            /\ proc' = [proc EXCEPT ![w] = [p EXCEPT !.pc = "process_chunks"]]
         \/ /\ proc' = [proc EXCEPT ![w] = [p EXCEPT !.pc = "except"]]
            /\ UNCHANGED raw_comments
    /\ UNCHANGED processed_comments

\* process_single_comment: the call of process_comment_chunks
ProcessChunks(w) ==
    /\ proc[w].pc = "process_chunks"
    /\ LET id == CurrentComment(w)
           text == raw_comments[id].comment_content
           n == Len(split_comment_into_chunks(text))
       IN \/ \E search \in [1..n -> SearchResults] :
                LET results == process_comment_chunks(id, text, search) IN
                proc' = [proc EXCEPT ![w].results = results, ![w].search = search,
                                     ![w].pc = IF results # <<>> THEN "save"
                                               ELSE "update_skipped"]
          \/ \* a similarity query or the embedding call raises
             /\ n > 0
             /\ proc' = [proc EXCEPT ![w].pc = "except"]
    /\ UNCHANGED <<raw_comments, processed_comments>>

\* process_single_comment: save_processed_comments
SaveResults(w) ==
    /\ proc[w].pc = "save"
    /\ \/ /\ processed_comments' =
                save_processed_comments(processed_comments, proc[w].results, proc[w].job_id)
          /\ proc' = [proc EXCEPT ![w].pc = "update_completed"]
       \/ /\ proc' = [proc EXCEPT ![w].pc = "except"]
          /\ UNCHANGED processed_comments
    /\ UNCHANGED raw_comments

\* process_single_comment: the status update to COMPLETED and the return to the loop
UpdateCompleted(w) ==
    /\ proc[w].pc = "update_completed"
    /\ \/ /\ raw_comments' = update_comment_status(raw_comments, CurrentComment(w), "COMPLETED")
          /\ proc' = [proc EXCEPT ![w] =
                        NextComment([proc[w] EXCEPT
                                       !.processed_count = @ + 1,
                                       !.total_results = @ + Len(proc[w].results)])]
       \/ /\ proc' = [proc EXCEPT ![w].pc = "except"]
          /\ UNCHANGED raw_comments
    /\ UNCHANGED processed_comments

\* process_single_comment: the status update to SKIPPED and the return to the loop
UpdateSkipped(w) ==
    /\ proc[w].pc = "update_skipped"
    /\ \/ /\ raw_comments' = update_comment_status(raw_comments, CurrentComment(w), "SKIPPED")
          /\ proc' = [proc EXCEPT ![w] =
                        NextComment([proc[w] EXCEPT !.skipped_count = @ + 1])]
       \/ /\ proc' = [proc EXCEPT ![w].pc = "except"]
          /\ UNCHANGED raw_comments
    /\ UNCHANGED processed_comments

\* process_single_comment: the except clause (status update to FAILED, whose own
\* failure is swallowed) and the re-raise into the loop of process_batch_comments
ExceptHandler(w) ==
    /\ proc[w].pc = "except"
    /\ \/ raw_comments' = update_comment_status(raw_comments, CurrentComment(w), "FAILED")
       \/ UNCHANGED raw_comments
    /\ proc' = [proc EXCEPT ![w] = BatchExcept(proc[w])]
    /\ UNCHANGED processed_comments

\* the rows a comment that is already COMPLETED has in processed_comments
SeedRow(id) ==
    [raw_comment_id_fk |-> id, product_feature_id_fk |-> 1,
     feature_similarity_score |-> 0, job_id_fk |-> 0,
     comment_chunk_text |-> << "a", "b", "c", "d", "e", "f" >>]

RECURSIVE SeedRows(_, _)
SeedRows(table, id) ==
    IF id > Len(table) THEN <<>>
    ELSE (IF table[id].processing_status = "COMPLETED" THEN << SeedRow(id) >> ELSE <<>>)
         \o SeedRows(table, id + 1)

IdleCrawlVars ==
    /\ vehicles = <<>>
    /\ upstream = <<>>
    /\ crawl = <<>>
    /\ sched = <<>>

IdleLedgerVars ==
    /\ processing_jobs = <<>>
    /\ ledger = <<>>
    /\ tasks = <<>>
    /\ responses = <<>>

IdleFeatureVars ==
    /\ product_features = {}
    /\ search_service = <<>>

IdleRequests == requests = <<>>

IdleProcVars ==
    /\ raw_comments = <<>>
    /\ processed_comments = <<>>
    /\ proc = [w \in Workers |-> IdleProc]

InitProc ==
    /\ IdleFeatureVars
    /\ IdleRequests
    /\ raw_comments \in [1..NumComments ->
          [vehicle_channel_id_fk : {1}, identifier_on_channel : {0},
           comment_content : SampleTexts, processing_status : {"NEW", "COMPLETED"}]]
    /\ processed_comments = SeedRows(raw_comments, 1)
    /\ proc = [w \in Workers |-> IdleProc]
    /\ IdleCrawlVars
    /\ IdleLedgerVars

NextProc ==
    /\ \/ ProcessBatchStart(1)
       \/ UpdateProcessing(1)
       \/ ProcessChunks(1)
       \/ SaveResults(1)
       \/ UpdateCompleted(1)
       \/ UpdateSkipped(1)
       \/ ExceptHandler(1)
    /\ UNCHANGED <<crawlVars, ledgerVars, featureVars, requests>>

\* one classification batch, every call into the store or the engine may raise
SpecProc == InitProc /\ [][NextProc]_vars

\* bodies of the comments of the runs over mixed tables: one that yields a chunk and
\* one too short to yield any
ConcurrentTexts ==
    { << "a", "b", "c", "d", "e", "f" >>, << "a", "b", "c", "d" >> }

\* one classification batch over rows in any processing state
InitProcAnyState ==
    /\ IdleFeatureVars
    /\ IdleRequests
    /\ raw_comments \in [1..NumComments ->
          [vehicle_channel_id_fk : {1}, identifier_on_channel : {0},
           comment_content : ConcurrentTexts,
           processing_status : {"NEW", "PROCESSING", "COMPLETED", "FAILED", "SKIPPED"}]]
    /\ processed_comments = SeedRows(raw_comments, 1)
    /\ proc = [w \in Workers |-> IdleProc]
    /\ IdleCrawlVars
    /\ IdleLedgerVars

SpecProcAnyState == InitProcAnyState /\ [][NextProc]_vars

InitProcConcurrent ==
    /\ IdleFeatureVars
    /\ IdleRequests
    /\ raw_comments \in [1..NumComments ->
          [vehicle_channel_id_fk : {1}, identifier_on_channel : {0},
           comment_content : ConcurrentTexts,
           processing_status : {"NEW", "COMPLETED"}]]
    /\ processed_comments = SeedRows(raw_comments, 1)
    /\ proc = [w \in Workers |-> IdleProc]
    /\ IdleCrawlVars
    /\ IdleLedgerVars

NextProcConcurrent ==
    /\ \E w \in Workers :
          \/ ProcessBatchStart(w)
          \/ UpdateProcessing(w)
          \/ ProcessChunks(w)
          \/ SaveResults(w)
          \/ UpdateCompleted(w)
          \/ UpdateSkipped(w)
          \/ ExceptHandler(w)
    /\ UNCHANGED <<crawlVars, ledgerVars, featureVars, requests>>

\* two classification batches, one per worker, whose steps interleave
SpecProcConcurrent == InitProcConcurrent /\ [][NextProcConcurrent]_vars

\* process_batch_comments has returned or raised: the task is over and the
\* worker is free for the next trigger
BatchEnd(w) ==
    /\ proc[w].pc \in {"done", "raised"}
    /\ proc' = [proc EXCEPT ![w] = IdleProc]
    /\ UNCHANGED <<raw_comments, processed_comments>>

NextProcRepeat ==
    \/ NextProc
    \/ /\ BatchEnd(1)
       /\ UNCHANGED <<crawlVars, ledgerVars, featureVars, requests>>

\* a step in which get_pending_comments returns
SelectOk == NextProcRepeat /\ proc[1].pc = "idle" /\ proc'[1].pc # "raised"

\* a step in which a write to raw_comments is committed
StatusWriteOk == NextProcRepeat /\ raw_comments' # raw_comments

\* The trigger keeps firing with a limit >= 1 and a started batch runs on (weak
\* fairness); the store is not down for ever: the selection and the status
\* writes succeed infinitely often when they are attempted infinitely often
\* (strong fairness).
FairnessProc ==
    /\ WF_vars(NextProcRepeat)
    /\ SF_vars(SelectOk)
    /\ SF_vars(StatusWriteOk)

\* classification batches, one after the other
FairSpecProc == InitProcConcurrent /\ [][NextProcRepeat]_vars /\ FairnessProc

\* the pieces review bodies are assembled from: section headers, runs of 4, 5
\* and 6 letters, a blank, stray brackets and an empty pair of brackets
TextTokens ==
    { << "[", "s", "]" >>, << "[", "t", "]" >>,
      << "a", "b", "c", "d" >>, << "a", "b", "c", "d", "e" >>,
      << "a", "b", "c", "d", "e", "f" >>,
      << " " >>, << "[" >>, << "]" >>, << "[", "]" >> }

RECURSIVE Flatten(_)
Flatten(pieces) == IF pieces = <<>> THEN <<>> ELSE Head(pieces) \o Flatten(Tail(pieces))

\* every body of at most MaxTokens pieces
TokenTexts ==
    UNION { { Flatten(pieces) : pieces \in [1..n -> TextTokens] } : n \in 0..MaxTokens }

\* one NEW comment with any of the generated bodies
InitChunk ==
    /\ IdleFeatureVars
    /\ IdleRequests
    /\ raw_comments \in
          { << [vehicle_channel_id_fk |-> 1, identifier_on_channel |-> 0,
                comment_content |-> text, processing_status |-> "NEW"] >> :
              text \in TokenTexts }
    /\ processed_comments = <<>>
    /\ proc = [w \in Workers |-> IdleProc]
    /\ IdleCrawlVars
    /\ IdleLedgerVars

\* the batch up to and including the split and the classification of the chunks
NextChunk ==
    /\ \/ ProcessBatchStart(1)
       \/ UpdateProcessing(1)
       \/ ProcessChunks(1)
    /\ UNCHANGED <<crawlVars, ledgerVars, featureVars, requests>>

SpecChunk == InitChunk /\ [][NextChunk]_vars

----------------------------------------------------------------------------
(* Properties of the classification batch *)

\* the segments between the section headers of a text, in text order, each
\* trimmed and paired with the header before it (the opening label before the
\* first header), kept when their trimmed length is at least min_length
RECURSIVE LabelledSegments(_, _, _)
LabelledSegments(parts, k, min_length) ==
    IF k > Len(parts) THEN <<>>
    ELSE LET segment == Strip(parts[k])
             label == IF k = 1 THEN OpeningTitle ELSE parts[k - 1]
         IN (IF Len(segment) >= min_length
             THEN << [source_section |-> label, chunk_text |-> segment] >>
             ELSE <<>>)
            \o LabelledSegments(parts, k + 2, min_length)

\* C19: for every text the split has been applied to, its chunks are exactly the
\* segments between bracketed headers whose trimmed length is at least 5, in
\* text order, each under the nearest preceding header or the opening label;
\* shorter segments, the headers and an empty text give no chunk.
C19_ChunksAreSegmentsOfAtLeastFive ==
    \A w \in Workers :
        proc[w].pc \in {"save", "update_skipped"} =>
            LET text == raw_comments[CurrentComment(w)].comment_content IN
            split_comment_into_chunks(text)
                = LabelledSegments(ReSplit(text, 1, 1), 1, 5)

StatusOf(id) == raw_comments[id].processing_status

\* the rows of processed_comments written for comment id under job job_id
RowsWritten(id, job_id) ==
    {r \in 1..Len(processed_comments) :
        /\ processed_comments[r].raw_comment_id_fk = id
        /\ processed_comments[r].job_id_fk = job_id}

\* C1: once a batch has returned its summary, every comment it selected is in
\* COMPLETED, SKIPPED or FAILED, whichever step raised (a status update included).
C1_TerminalAfterBatch ==
    \A w \in Workers :
        proc[w].pc = "done" =>
            \A k \in 1..Len(proc[w].pending_comments) :
                StatusOf(proc[w].pending_comments[k]) \in Terminal

\* C2: once a batch has returned, a touched comment in COMPLETED has at least one
\* row written by this run, one in SKIPPED or FAILED has none.
C2_RowsMatchState ==
    \A w \in Workers :
        proc[w].pc = "done" =>
            \A k \in 1..Len(proc[w].pending_comments) :
                LET id == proc[w].pending_comments[k]
                    n == Cardinality(RowsWritten(id, proc[w].job_id))
                IN /\ StatusOf(id) = "COMPLETED" => n >= 1
                   /\ StatusOf(id) \in {"SKIPPED", "FAILED"} => n = 0

\* C35: once a batch has returned its summary, processed_count + failed_count
\* + skipped_count equals total_comments, and total_results equals the number
\* of rows of processed_comments the run has written.
C35_SummaryMatchesStore ==
    \A w \in Workers :
        proc[w].pc = "done"
        => LET summary == proc[w].summary[1] IN
           /\ summary.processed_count + summary.failed_count + summary.skipped_count
                  = summary.total_comments
           /\ summary.total_results
                  = Cardinality({k \in DOMAIN processed_comments :
                                    processed_comments[k].job_id_fk = proc[w].job_id})

\* C39: under repeated batches, every comment in state NEW is eventually in
\* state COMPLETED, SKIPPED or FAILED.
C39_NewEventuallyTerminal ==
    \A id \in 1..NumComments :
        (StatusOf(id) = "NEW") ~> (StatusOf(id) \in Terminal)

\* C22: in every step, a comment whose processing state changes goes from NEW to
\* PROCESSING or from PROCESSING to COMPLETED, FAILED or SKIPPED; no comment
\* leaves COMPLETED, FAILED or SKIPPED, also when two batches run concurrently.
C22_OnlyLifecycleTransitions ==
    [][\A id \in DOMAIN raw_comments :
          raw_comments'[id].processing_status # raw_comments[id].processing_status
          => \/ /\ raw_comments[id].processing_status = "NEW"
                /\ raw_comments'[id].processing_status = "PROCESSING"
             \/ /\ raw_comments[id].processing_status = "PROCESSING"
                /\ raw_comments'[id].processing_status \in Terminal]_vars

\* C23: two concurrent batches can both select the same comment and both write
\* rows for it: the save of a run appends one row per result of the comment
\* under the run's job, whatever rows another run has already written for the
\* same comment, and leaves those rows in place.
C23_SaveIgnoresOtherRuns ==
    [][\A w \in Workers :
          (proc[w].pc = "save" /\ proc'[w].pc = "update_completed")
          => LET id == CurrentComment(w) IN
             /\ Cardinality(RowsWritten(id, proc[w].job_id)')
                    = Cardinality(RowsWritten(id, proc[w].job_id)) + Len(proc[w].results)
             /\ \A v \in Workers \ {w} :
                    RowsWritten(id, proc[v].job_id)' = RowsWritten(id, proc[v].job_id)]_vars

\* both runs selected the same comment and each has written rows for it
C23_Witness ==
    \E id \in DOMAIN raw_comments :
        \A w \in Workers :
            /\ id \in Range(proc[w].pending_comments)
            /\ RowsWritten(id, w) # {}

\* C24: a run reaches the similarity queries of a comment only through the step
\* that commits PROCESSING on the comment's row, and the answers of the engine
\* are obtained only after that step.
C24_ProcessingCommittedBeforeSearch ==
    [][\A w \in Workers :
          /\ (proc'[w].pc = "process_chunks" /\ proc[w].pc # "process_chunks")
             => /\ proc[w].pc = "update_processing"
                /\ raw_comments'[CurrentComment(w)].processing_status = "PROCESSING"
          /\ (proc'[w].search # proc[w].search /\ proc'[w].search # <<>>)
             => proc[w].pc = "process_chunks"]_vars

\* the engine has answered for a comment whose row is in PROCESSING
C24_Witness ==
    \E w \in Workers :
        /\ proc[w].pc = "save"
        /\ proc[w].search # <<>>
        /\ StatusOf(CurrentComment(w)) = "PROCESSING"

\* C25: a batch started with a limit selects at most that many comments, all
\* of them distinct rows in NEW at that moment, and no step of the batch changes
\* a row it did not select: rows in PROCESSING, FAILED, SKIPPED or COMPLETED
\* (and NEW rows beyond the limit) stay as they are.
C25_BatchTouchesOnlyItsSelection ==
    [][/\ \A limit \in 1..MaxLimit :
             ProcessBatchBegin(1, limit)
             => LET sel == proc'[1].pending_comments IN
                /\ Len(sel) <= limit
                /\ \A k \in DOMAIN sel : raw_comments[sel[k]].processing_status = "NEW"
                /\ \A j, k \in DOMAIN sel : j # k => sel[j] # sel[k]
       /\ \A id \in DOMAIN raw_comments :
             id \notin Range(proc'[1].pending_comments)
             => raw_comments'[id] = raw_comments[id]
       /\ Len(proc'[1].attempted) <= Len(proc'[1].pending_comments)]_vars

\* the batch has returned having selected one comment, and a row it did not
\* select is still in PROCESSING
C25_Witness ==
    /\ proc[1].pc = "done"
    /\ Len(proc[1].pending_comments) = 1
    /\ StatusOf(proc[1].pending_comments[1]) \in Terminal
    /\ \E id \in DOMAIN raw_comments :
           /\ id \notin Range(proc[1].pending_comments)
           /\ StatusOf(id) = "PROCESSING"

\* the chunks of the current comment whose best distance is strictly below the threshold
StrictlyBelow(w) ==
    {k \in DOMAIN proc[w].search :
        /\ proc[w].search[k] # <<>>
        /\ proc[w].search[k][1].score + 1 <= SEMANTIC_SIMILARITY_THRESHOLD}

\* C8: a chunk yields a classification result iff the engine returned a candidate
\* whose distance is strictly below the threshold: a distance equal to the threshold
\* and an empty candidate list yield none.
C8_AcceptIffBelowThreshold ==
    \A w \in Workers :
        proc[w].pc \in {"save", "update_skipped"} =>
            /\ Len(proc[w].results) = Cardinality(StrictlyBelow(w))
            /\ \A r \in 1..Len(proc[w].results) :
                   proc[w].results[r].feature_similarity_score
                       \in 0..(SEMANTIC_SIMILARITY_THRESHOLD - 1)
            /\ (\A k \in DOMAIN proc[w].search :
                   proc[w].search[k] = <<>>
                   \/ proc[w].search[k][1].score >= SEMANTIC_SIMILARITY_THRESHOLD)
               => proc[w].results = <<>>

\* one chunk at exactly the threshold (rejected), one a unit below (accepted)
C8_Witness ==
    \E w \in Workers :
        /\ proc[w].pc = "save"
        /\ Len(proc[w].results) = 1
        /\ \E k \in DOMAIN proc[w].search :
               /\ proc[w].search[k] # <<>>
               /\ proc[w].search[k][1].score = SEMANTIC_SIMILARITY_THRESHOLD
        /\ \E k \in DOMAIN proc[w].search :
               /\ proc[w].search[k] # <<>>
               /\ proc[w].search[k][1].score = SEMANTIC_SIMILARITY_THRESHOLD - 1

IsPrefix(s, t) == Len(s) <= Len(t) /\ s = SubSeq(t, 1, Len(s))

\* C10: an exception raised while processing a comment never aborts the batch:
\* the comments are attempted once each in selection order and the batch returns
\* its summary; the batch raises only if the selection itself failed.
C10_BatchNeverAborted ==
    \A w \in Workers :
        /\ IsPrefix(proc[w].attempted, proc[w].pending_comments)
        /\ proc[w].pc = "raised" => proc[w].pending_comments = <<>>
        /\ proc[w].pc = "done" =>
              /\ proc[w].attempted = proc[w].pending_comments
              /\ proc[w].summary # <<>>
              /\ proc[w].summary[1].total_comments = Len(proc[w].pending_comments)

\* a batch of two returned although its first comment raised
C10_Witness ==
    \E w \in Workers :
        /\ proc[w].pc = "done"
        /\ Len(proc[w].attempted) = 2
        /\ proc[w].failed_count >= 1
        /\ StatusOf(proc[w].pending_comments[1]) \notin {"COMPLETED", "SKIPPED"}

----------------------------------------------------------------------------
(* The paginated crawl: crawl_new_comments, one invocation at a time per crawler *)

\* Item identifiers of the remote listing; 0 is an entry without any id field.
\* A listing is a sequence of pages, a page a sequence of identifiers.
SampleListings ==
    { << <<1, 2>>, <<2, 3>> >>,
      << <<1>>, <<>>, <<2>> >>,
      << <<0, 1, 1>> >>,
      << >> }

\* bodies returned by the detail lookup; <<>> is the empty string
DetailBodies == { <<>>, << "a", "b", "c", "d", "e", "f" >> }

\* the max_pages field of the crawl request; 0 is None
MaxPagesRequests == {0, 1, 2}

\* what channels.channel_base_url of the vehicle's channel holds: "ok" is a JSON
\* object with koubei_series.url and koubei_detail.url, "missing" no channel row
\* or an empty column, "invalid_json" text json.loads rejects, and the last two
\* a JSON object without the one or the other url
ChannelConfigs == {"ok", "missing", "invalid_json", "no_listing_url", "no_detail_url"}

\* _get_channel_config returns a dict (None for a missing or unparsable column)
ConfigLoaded(channel_config) == channel_config \notin {"missing", "invalid_json"}

\* koubei_config.get("url", "") is not empty
HasListingUrl(channel_config) == channel_config # "no_listing_url"

\* koubei_detail_config.get("url", "") is not empty
HasDetailUrl(channel_config) == channel_config # "no_detail_url"

RawCommentRow(vehicle_channel_id, draft) ==
    [vehicle_channel_id_fk |-> vehicle_channel_id,
     identifier_on_channel |-> draft.identifier_on_channel,
     comment_content |-> draft.comment_content,
     processing_status |-> "NEW"]

get_existing_nonempty(table, vehicle_channel_id) ==
    {table[r].identifier_on_channel : r \in
        {q \in 1..Len(table) : /\ table[q].vehicle_channel_id_fk = vehicle_channel_id
                               /\ table[q].comment_content # <<>>}}

\* _get_existing_comment_identifiers
get_existing_comment_identifiers(table, vehicle_channel_id) ==
    {table[r].identifier_on_channel : r \in
        {q \in 1..Len(table) : table[q].vehicle_channel_id_fk = vehicle_channel_id}}

\* _count_pages: the page count the source reports on page 1 (`or 1`)
count_pages(listing) == IF Len(listing) = 0 THEN 1 ELSE Len(listing)

effective_max_pages_uncapped(total_pages, requested) == total_pages

effective_max_pages_first_page(total_pages, requested) == 1

\* max_pages = min(total_pages, crawl_request.max_pages or total_pages)
effective_max_pages(total_pages, requested) ==
    Min(total_pages, IF requested # 0 THEN requested ELSE total_pages)

\* the list of one page; pages past the end of the feed are empty
PageItems(listing, page) == IF page \in DOMAIN listing THEN listing[page] ELSE <<>>

IsNewIdentifier_existing_only(comment_id, existing_identifiers, seen_identifiers) ==
    comment_id \notin existing_identifiers

\* the dedup test of _collect_new_comments
IsNewIdentifier(comment_id, existing_identifiers, seen_identifiers) ==
    ~(comment_id \in existing_identifiers \/ comment_id \in seen_identifiers)

\* the inner loop of _collect_new_comments over the entries of one page:
\* returns the new_comments list extended by the page's new drafts
RECURSIVE CollectFromPage(_, _, _, _)
CollectFromPage(comments, new_comments, seen_identifiers, existing_identifiers) ==
    IF comments = <<>> THEN new_comments
    ELSE LET comment_id == Head(comments) IN
         IF comment_id = 0
         THEN CollectFromPage(Tail(comments), new_comments, seen_identifiers,
                              existing_identifiers)
         ELSE IF IsNewIdentifier(comment_id, existing_identifiers, seen_identifiers)
         THEN CollectFromPage(Tail(comments),
                  Append(new_comments, [identifier_on_channel |-> comment_id,
                                        comment_content |-> <<>>]),
                  seen_identifiers \cup {comment_id}, existing_identifiers)
         ELSE CollectFromPage(Tail(comments), new_comments, seen_identifiers,
                              existing_identifiers)

DraftIds(new_comments) ==
    {new_comments[k].identifier_on_channel : k \in 1..Len(new_comments)}

\* _save_new_comments: every draft is added, one commit
RECURSIVE NewRows(_, _)
NewRows(new_comments, vehicle_channel_id) ==
    IF new_comments = <<>> THEN <<>>
    ELSE << RawCommentRow(vehicle_channel_id, Head(new_comments)) >>
         \o NewRows(Tail(new_comments), vehicle_channel_id)

save_new_comments(table, new_comments, vehicle_channel_id) ==
    table \o NewRows(new_comments, vehicle_channel_id)

\* the table as the open transaction sees it when the flush of db.commit()
\* stops at row fail_at (Len + 1: every INSERT was sent, the COMMIT itself fails)
FlushedUpTo(table, new_comments, vehicle_channel_id, fail_at) ==
    table \o SubSeq(NewRows(new_comments, vehicle_channel_id), 1, fail_at - 1)

db_rollback_keeps_flushed(committed, in_transaction) == in_transaction

\* db.rollback() in the except clause: the store returns to its committed rows
db_rollback(committed, in_transaction) == committed

IdleCrawl ==
    [pc |-> "idle", vehicle |-> 0, requested |-> 0, existing |-> {},
     max_pages |-> 0, page |-> 0, new_comments |-> <<>>, seen |-> {},
     fetch_ok |-> TRUE, empty_page |-> 0, history |-> <<>>]

\* the record of a finished invocation
RunRecord(cr, outcome, saved_count) ==
    [vehicle |-> cr.vehicle, requested |-> cr.requested, fetch_ok |-> cr.fetch_ok,
     outcome |-> outcome, found |-> Len(cr.new_comments), saved |-> saved_count]

Finished(cr, outcome, saved_count) ==
    [cr EXCEPT !.pc = outcome,
               !.history = Append(@, RunRecord(cr, outcome, saved_count))]

\* crawl_new_comments, steps 1 to 3: vehicle, channel configuration, existing ids
CrawlStart(c, v, requested, runs) ==
    /\ crawl[c].pc \in {"idle", "returned", "raised"}
    /\ Len(crawl[c].history) < runs
    /\ LET cr == [IdleCrawl EXCEPT !.vehicle = v, !.requested = requested,
                                   !.history = crawl[c].history]
       IN IF ~ConfigLoaded(vehicles[v].channel_config)
          THEN crawl' = [crawl EXCEPT ![c] = Finished(cr, "raised", 0)]
          ELSE crawl' = [crawl EXCEPT ![c] =
                   [cr EXCEPT !.pc = "count_pages",
                              !.existing = get_existing_comment_identifiers(raw_comments, v)]]
    /\ UNCHANGED <<raw_comments, vehicles, upstream>>

\* step 4: _count_pages; a failed request is logged and counts as 1 page
CountPages(c) ==
    /\ crawl[c].pc = "count_pages"
    /\ \/ /\ HasListingUrl(vehicles[crawl[c].vehicle].channel_config)
          /\ crawl' = [crawl EXCEPT
                      ![c].max_pages = effective_max_pages(
                           count_pages(upstream[crawl[c].vehicle]), crawl[c].requested),
                      ![c].page = 1, ![c].pc = "collect"]
       \/ \* the request fails, or the url is not configured (ValueError, caught)
          crawl' = [crawl EXCEPT
                      ![c].max_pages = effective_max_pages(1, crawl[c].requested),
                      ![c].page = 1, ![c].pc = "collect", ![c].fetch_ok = FALSE]
    /\ UNCHANGED <<raw_comments, vehicles, upstream>>

PageFailed_propagates(cr) == Finished(cr, "raised", 0)

\* the except clause of the page loop: the failure is logged and the loop
\* continues with the next page, the drafts collected so far are kept
PageFailed(cr) ==
    [cr EXCEPT !.fetch_ok = FALSE, !.page = @ + 1,
               !.pc = IF cr.page >= cr.max_pages THEN "scrape" ELSE "collect"]

\* step 5: one iteration of the page loop of _collect_new_comments
CollectPage(c) ==
    /\ crawl[c].pc = "collect"
    /\ LET cr == crawl[c]
           comments == PageItems(upstream[cr.vehicle], cr.page)
           after == CollectFromPage(comments, cr.new_comments, cr.seen, cr.existing)
           last == cr.page >= cr.max_pages
       IN \/ \* no koubei_series.url: ValueError before the first page
             /\ ~HasListingUrl(vehicles[cr.vehicle].channel_config)
             /\ crawl' = [crawl EXCEPT ![c] = Finished(cr, "raised", 0)]
          \/ \* the page is fetched
             /\ HasListingUrl(vehicles[cr.vehicle].channel_config)
             /\ crawl' = [crawl EXCEPT ![c] =
                IF comments = <<>>
                THEN [cr EXCEPT !.pc = "scrape", !.empty_page = cr.page]
                ELSE [cr EXCEPT !.new_comments = after,
                                !.seen = DraftIds(after),
                                !.page = @ + 1,
                                !.pc = IF last THEN "scrape" ELSE "collect"]]
          \/ \* the request or its parsing fails
             /\ HasListingUrl(vehicles[cr.vehicle].channel_config)
             /\ crawl' = [crawl EXCEPT ![c] = PageFailed(cr)]
    /\ UNCHANGED <<raw_comments, vehicles, upstream>>

\* _count_pages of the asynchronous service: int(pagecount), without `or 1`
count_pages_async(listing) == Len(listing)

\* step 4 of the asynchronous service; range(1, max_pages + 1) is empty when the
\* source reports no page
CountPagesAsync(c) ==
    /\ crawl[c].pc = "count_pages"
    /\ \/ /\ HasListingUrl(vehicles[crawl[c].vehicle].channel_config)
          /\ LET max_pages == effective_max_pages(
                     count_pages_async(upstream[crawl[c].vehicle]), crawl[c].requested)
             IN crawl' = [crawl EXCEPT
                      ![c].max_pages = max_pages,
                      ![c].page = 1,
                      ![c].pc = IF max_pages = 0 THEN "scrape" ELSE "collect"]
       \/ \* the request fails, or the url is not configured (ValueError, caught)
          crawl' = [crawl EXCEPT
                      ![c].max_pages = effective_max_pages(1, crawl[c].requested),
                      ![c].page = 1, ![c].pc = "collect", ![c].fetch_ok = FALSE]
    /\ UNCHANGED <<raw_comments, vehicles, upstream>>

\* the page loop of the asynchronous service (RawCommentUpdateService.
\* _collect_new_comments): a page without items adds nothing and the loop goes on
CollectPageAsync(c) ==
    /\ crawl[c].pc = "collect"
    /\ LET cr == crawl[c]
           comments == PageItems(upstream[cr.vehicle], cr.page)
           after == CollectFromPage(comments, cr.new_comments, cr.seen, cr.existing)
           last == cr.page >= cr.max_pages
       IN \/ \* no koubei_series.url: ValueError before the first page
             /\ ~HasListingUrl(vehicles[cr.vehicle].channel_config)
             /\ crawl' = [crawl EXCEPT ![c] = Finished(cr, "raised", 0)]
          \/ \* the page is fetched
             /\ HasListingUrl(vehicles[cr.vehicle].channel_config)
             /\ crawl' = [crawl EXCEPT ![c] =
                [cr EXCEPT !.new_comments = after,
                           !.seen = DraftIds(after),
                           !.empty_page = IF comments = <<>> /\ @ = 0 THEN cr.page ELSE @,
                           !.page = @ + 1,
                           !.pc = IF last THEN "scrape" ELSE "collect"]]
          \/ \* the request or its parsing fails
             /\ HasListingUrl(vehicles[cr.vehicle].channel_config)
             /\ crawl' = [crawl EXCEPT ![c] = PageFailed(cr)]
    /\ UNCHANGED <<raw_comments, vehicles, upstream>>

RECURSIVE WithBodies_drops_failed(_, _)
WithBodies_drops_failed(new_comments, body) ==
    IF new_comments = <<>> THEN <<>>
    ELSE (IF Head(body) = <<>> THEN <<>>
          ELSE << [Head(new_comments) EXCEPT !.comment_content = Head(body)] >>)
         \o WithBodies_drops_failed(Tail(new_comments), Tail(body))

\* the loop of _scrape_comments_contents: body[k] is what the lookup of draft k
\* gave, the empty string when it failed; every draft stays in the list
WithBodies(new_comments, body) ==
    [k \in 1..Len(new_comments) |->
        [new_comments[k] EXCEPT !.comment_content = body[k]]]

\* step 6: _scrape_comments_contents; a failed lookup leaves the body empty
ScrapeContents(c) ==
    /\ crawl[c].pc = "scrape"
    /\ IF HasDetailUrl(vehicles[crawl[c].vehicle].channel_config)
       THEN \E body \in [1..Len(crawl[c].new_comments) -> DetailBodies] :
               crawl' = [crawl EXCEPT
                      ![c].new_comments = WithBodies(crawl[c].new_comments, body),
                      ![c].pc = "save"]
       ELSE \* no koubei_detail.url: a warning, the bodies stay empty
            crawl' = [crawl EXCEPT ![c].pc = "save"]
    /\ UNCHANGED <<raw_comments, vehicles, upstream>>

\* step 7: _save_new_comments and the return of the result
SaveNewComments(c) ==
    /\ crawl[c].pc = "save"
    /\ \/ /\ raw_comments' = save_new_comments(raw_comments, crawl[c].new_comments,
                                               crawl[c].vehicle)
          /\ crawl' = [crawl EXCEPT ![c] =
                         Finished(crawl[c], "returned", Len(crawl[c].new_comments))]
       \/ \* an insert or the commit fails: rollback, re-raise
          /\ crawl[c].new_comments # <<>>
          /\ \E fail_at \in 1..(Len(crawl[c].new_comments) + 1) :
                raw_comments' = db_rollback(raw_comments,
                                    FlushedUpTo(raw_comments, crawl[c].new_comments,
                                                crawl[c].vehicle, fail_at))
          /\ crawl' = [crawl EXCEPT ![c] = Finished(crawl[c], "raised", 0)]
    /\ UNCHANGED <<vehicles, upstream>>

CrawlStep(c, runs) ==
    \/ \E v \in DOMAIN vehicles, requested \in MaxPagesRequests :
          CrawlStart(c, v, requested, runs)
    \/ CountPages(c)
    \/ CollectPage(c)
    \/ ScrapeContents(c)
    \/ SaveNewComments(c)

\* rows the store may hold before the first crawl (no duplicates among them)
InitialStores ==
    { <<>>,
      << RawCommentRow(1, [identifier_on_channel |-> 2, comment_content |-> <<>>]) >>,
      << RawCommentRow(2, [identifier_on_channel |-> 1, comment_content |-> <<>>]),
         RawCommentRow(1, [identifier_on_channel |-> 1,
                           comment_content |-> << "a", "b", "c", "d", "e", "f" >>]) >> }

InitCrawl ==
    /\ IdleFeatureVars
    /\ IdleRequests
    /\ raw_comments \in InitialStores
    /\ processed_comments = <<>>
    /\ proc = [w \in Workers |-> IdleProc]
    /\ vehicles = [v \in VehicleIds |->
                      [channel_config |-> "ok", last_comment_crawled_at |-> 0]]
    /\ upstream \in [VehicleIds -> SampleListings]
    /\ \A v \in VehicleIds : v # 1 => upstream[v] = << <<1, 2>>, <<2, 3>> >>
    /\ crawl = [c \in Crawlers |-> IdleCrawl]
    /\ sched = <<>>
    /\ IdleLedgerVars

\* crawl runs of two tasks, interleaved at every store access
NextCrawl ==
    /\ \E c \in Crawlers : CrawlStep(c, 1)
    /\ UNCHANGED <<processed_comments, proc, sched, ledgerVars, featureVars, requests>>

SpecCrawl == InitCrawl /\ [][NextCrawl]_vars

\* crawl runs one after the other
NextCrawlSeq ==
    /\ CrawlStep(1, MaxRuns)
    /\ UNCHANGED <<processed_comments, proc, sched, ledgerVars, featureVars, requests>>

SpecCrawlSeq == InitCrawl /\ [][NextCrawlSeq]_vars

\* crawl_new_comments of the asynchronous service, which the crawl endpoints
\* and crawl_raw_comments_async call
CrawlStepAsync(c, runs) ==
    \/ \E v \in DOMAIN vehicles, requested \in MaxPagesRequests :
          CrawlStart(c, v, requested, runs)
    \/ CountPagesAsync(c)
    \/ CollectPageAsync(c)
    \/ ScrapeContents(c)
    \/ SaveNewComments(c)

NextCrawlAsync ==
    /\ CrawlStepAsync(1, MaxRuns)
    /\ UNCHANGED <<processed_comments, proc, sched, ledgerVars, featureVars, requests>>

SpecCrawlAsync == InitCrawl /\ [][NextCrawlAsync]_vars

\* crawls of a vehicle whose channel carries any of the configurations
InitCrawlConfig ==
    /\ IdleFeatureVars
    /\ IdleRequests
    /\ raw_comments \in InitialStores
    /\ processed_comments = <<>>
    /\ proc = [w \in Workers |-> IdleProc]
    /\ vehicles \in [VehicleIds -> [channel_config : ChannelConfigs,
                                     last_comment_crawled_at : {0}]]
    /\ vehicles[2].channel_config = "ok"
    /\ upstream \in [VehicleIds -> SampleListings]
    /\ \A v \in VehicleIds : v # 1 => upstream[v] = << <<1, 2>>, <<2, 3>> >>
    /\ crawl = [c \in Crawlers |-> IdleCrawl]
    /\ sched = <<>>
    /\ IdleLedgerVars

SpecCrawlConfig == InitCrawlConfig /\ [][NextCrawlSeq]_vars

----------------------------------------------------------------------------
(* Properties of the crawl *)

InCollection(c) == crawl[c].pc \in {"collect", "scrape", "save"}

\* C3: the drafts of one run carry pairwise distinct identifiers, none of which
\* is stored for the vehicle (in sequential runs the store at the start of the
\* run is the store during the run).
C3_DraftsDisjoint ==
    \A c \in Crawlers :
        InCollection(c) =>
            /\ \A j, k \in 1..Len(crawl[c].new_comments) :
                   j # k => crawl[c].new_comments[j].identifier_on_channel
                            # crawl[c].new_comments[k].identifier_on_channel
            /\ DraftIds(crawl[c].new_comments)
                   \cap get_existing_comment_identifiers(raw_comments, crawl[c].vehicle) = {}
            /\ 0 \notin DraftIds(crawl[c].new_comments)

\* a listing that repeats item 2 on its second page, collected into three drafts
C3_Witness ==
    \E c \in Crawlers :
        /\ crawl[c].pc = "save"
        /\ upstream[crawl[c].vehicle] = << <<1, 2>>, <<2, 3>> >>
        /\ DraftIds(crawl[c].new_comments) = {1, 2, 3}
        /\ Len(crawl[c].new_comments) = 3

\* C4: no two rows of raw_comments share (vehicle-channel id, source-local identifier).
C4_UniqueDedupKey ==
    \A q, r \in 1..Len(raw_comments) :
        q # r => \/ raw_comments[q].vehicle_channel_id_fk # raw_comments[r].vehicle_channel_id_fk
                 \/ raw_comments[q].identifier_on_channel # raw_comments[r].identifier_on_channel

\* C5: of two runs in sequence for the same vehicle with the same max_pages, each
\* with every listing request successful and each returning, the later one finds
\* no new draft and saves no row.
C5_SecondRunEmpty ==
    LET h == crawl[1].history IN
    \A i, j \in 1..Len(h) :
        ( /\ i < j
          /\ h[i].vehicle = h[j].vehicle
          /\ h[i].requested = h[j].requested
          /\ h[i].fetch_ok /\ h[j].fetch_ok
          /\ h[i].outcome = "returned" /\ h[j].outcome = "returned" )
        => h[j].found = 0 /\ h[j].saved = 0

\* the first run filled an empty store, a detail lookup left a body empty, and
\* the second run of the same vehicle found nothing
C5_Witness ==
    LET h == crawl[1].history IN
    /\ Len(h) >= 2
    /\ h[1].vehicle = h[2].vehicle /\ h[1].requested = h[2].requested
    /\ h[1].fetch_ok /\ h[2].fetch_ok
    /\ h[1].outcome = "returned" /\ h[2].outcome = "returned"
    /\ h[1].saved >= 2 /\ h[1].saved = Len(raw_comments)
    /\ \E r \in 1..Len(raw_comments) : raw_comments[r].comment_content = <<>>
    /\ h[2].found = 0

\* C27: a failed request or parse of a listing page never makes the run raise:
\* the drafts collected so far are kept, the loop goes on with the next page (or
\* ends when that was the last one), and what later pages yield is appended.
C27_PageFailureSkipsPage ==
    [][\A c \in DOMAIN crawl :
          (/\ crawl[c].pc = "collect"
           /\ HasListingUrl(vehicles[crawl[c].vehicle].channel_config)
           /\ crawl'[c] # crawl[c])
          => /\ crawl'[c].pc \in {"collect", "scrape"}
             /\ IsPrefix(crawl[c].new_comments, crawl'[c].new_comments)
             /\ (crawl[c].fetch_ok /\ ~crawl'[c].fetch_ok)
                => /\ crawl'[c].new_comments = crawl[c].new_comments
                   /\ crawl'[c].page = crawl[c].page + 1
                   /\ crawl'[c].pc = "collect" <=> crawl[c].page < crawl[c].max_pages]_vars

\* a run over three pages whose second request failed has returned the drafts
\* of the first and of the third page
C27_Witness ==
    \E c \in DOMAIN crawl : \E r \in DOMAIN crawl[c].history :
        /\ crawl[c].history[r].outcome = "returned"
        /\ ~crawl[c].history[r].fetch_ok
        /\ upstream[crawl[c].history[r].vehicle] = << <<1>>, <<>>, <<2>> >>
        /\ crawl[c].history[r].found = 2
        /\ crawl[c].history[r].saved = 2

\* C28: the detail lookups discard no draft: after them the list holds the same
\* identifiers in the same order, a draft whose lookup failed having the empty
\* body, and a run that returns has saved as many rows as it collected drafts.
C28_FailedLookupKeepsDraft ==
    [][\A c \in DOMAIN crawl :
          /\ (crawl[c].pc = "scrape" /\ crawl'[c].pc = "save")
             => /\ Len(crawl'[c].new_comments) = Len(crawl[c].new_comments)
                /\ \A k \in DOMAIN crawl[c].new_comments :
                       crawl'[c].new_comments[k].identifier_on_channel
                           = crawl[c].new_comments[k].identifier_on_channel
          /\ (crawl[c].pc = "save" /\ crawl'[c].pc = "returned")
             => /\ Len(raw_comments') = Len(raw_comments) + Len(crawl[c].new_comments)
                /\ crawl'[c].history[Len(crawl'[c].history)].saved
                       = crawl'[c].history[Len(crawl'[c].history)].found]_vars

\* a returned run saved two rows of one vehicle, the first with the empty body
\* of a failed lookup, the one after it with the body its lookup returned
C28_Witness ==
    \E c \in DOMAIN crawl : \E r \in DOMAIN crawl[c].history :
        /\ crawl[c].history[r].outcome = "returned"
        /\ crawl[c].history[r].saved = 2
        /\ \E i \in 1..(Len(raw_comments) - 1) :
               /\ i > Len(raw_comments) - 2
               /\ raw_comments[i].vehicle_channel_id_fk = crawl[c].history[r].vehicle
               /\ raw_comments[i + 1].vehicle_channel_id_fk = crawl[c].history[r].vehicle
               /\ raw_comments[i].comment_content = <<>>
               /\ raw_comments[i + 1].comment_content # <<>>

\* the page count the source reports on page 1 of the listing of a run's vehicle
ReportedPages(c) == Len(upstream[crawl[c].vehicle])

\* min(total, maxPages), an absent maxPages (0) standing for total
PageCap(total, requested) ==
    IF requested = 0 \/ total < requested THEN total ELSE requested

\* C29 as stated: whenever the page loop is about to request a page, the number
\* of that page is at most min(reported page count, maxPages).
C29_PagesWithinReportedCount ==
    \A c \in DOMAIN crawl :
        crawl[c].pc = "collect"
            => crawl[c].page <= PageCap(ReportedPages(c), crawl[c].requested)

\* C29 amended: whenever the page loop is about to request a page, the number of
\* that page is at most min(P, maxPages), where P is the reported page count,
\* or 1 when the source reports no page.
C29_PagesWithinCountOrOne ==
    \A c \in DOMAIN crawl :
        crawl[c].pc = "collect"
            => crawl[c].page <= PageCap(IF ReportedPages(c) = 0 THEN 1 ELSE ReportedPages(c),
                                        crawl[c].requested)

\* the loop is about to request the last page maxPages allows, of a source
\* that reports more
C29_Witness ==
    \E c \in DOMAIN crawl :
        /\ crawl[c].pc = "collect"
        /\ crawl[c].requested = 2
        /\ crawl[c].page = 2
        /\ ReportedPages(c) = 3

\* C26: once a listing page has been fetched and has returned no item, the
\* run requests no further listing page: the page loop is over.
C26_NoRequestAfterEmptyPage ==
    \A c \in DOMAIN crawl : crawl[c].empty_page # 0 => crawl[c].pc # "collect"

\* C16: a crawl of a vehicle whose channel configuration is missing, is not
\* valid JSON, or lacks the listing url or the detail url ends by raising, with
\* no row saved.
C16_BadConfigFailsCrawl ==
    \A c \in Crawlers : \A i \in 1..Len(crawl[c].history) :
        LET run == crawl[c].history[i] IN
        vehicles[run.vehicle].channel_config # "ok"
            => run.outcome = "raised" /\ run.saved = 0

\* a crawl without detail url that returned and stored rows with empty bodies
NoDetailUrlRowsSaved ==
    \E c \in Crawlers : \E i \in 1..Len(crawl[c].history) :
        LET run == crawl[c].history[i] IN
        /\ vehicles[run.vehicle].channel_config = "no_detail_url"
        /\ run.outcome = "returned" /\ run.saved = 3
        /\ \A r \in 1..Len(raw_comments) : raw_comments[r].comment_content = <<>>

\* C11: _save_new_comments is all-or-nothing. A call that raises leaves the
\* table as it was; a call that returns has appended one row per draft, in
\* order, each with processing_status NEW, and reports that many rows.
C11_SaveAllOrNothing ==
    [][\A c \in Crawlers :
          (crawl[c].pc = "save" /\ crawl'[c].pc # "save") =>
              LET drafts == crawl[c].new_comments
                  last == crawl'[c].history[Len(crawl'[c].history)]
              IN \/ /\ crawl'[c].pc = "raised"
                    /\ raw_comments' = raw_comments
                 \/ /\ crawl'[c].pc = "returned"
                    /\ Len(raw_comments') = Len(raw_comments) + Len(drafts)
                    /\ SubSeq(raw_comments', 1, Len(raw_comments)) = raw_comments
                    /\ \A k \in 1..Len(drafts) :
                          LET row == raw_comments'[Len(raw_comments) + k] IN
                          /\ row.processing_status = "NEW"
                          /\ row.identifier_on_channel = drafts[k].identifier_on_channel
                          /\ row.comment_content = drafts[k].comment_content
                          /\ row.vehicle_channel_id_fk = crawl[c].vehicle
                    /\ last.saved = Len(drafts)]_vars

\* a save of three drafts raised and none of the three is stored
C11_Witness ==
    \E c \in Crawlers :
        /\ crawl[c].pc = "raised"
        /\ Len(crawl[c].new_comments) = 3
        /\ DraftIds(crawl[c].new_comments)
               \cap get_existing_comment_identifiers(raw_comments, crawl[c].vehicle) = {}

----------------------------------------------------------------------------
(* The job ledger: the lookup-or-create step at the start of the scheduled tasks *)

JobTypes ==
    {"scheduled_comment_crawl", "scheduled_comment_semantic_processing",
     "scheduled_vehicle_update"}

TaskIds == {1, 2}      \* self.request.id
ChannelIds == {1, 2}

\* the structure passed to parameters.contains(...)
Probe(job_type, celery_task_id, channel_id) ==
    IF job_type = "scheduled_vehicle_update"
    THEN [celery_task_id |-> celery_task_id, channel_id |-> channel_id]
    ELSE [celery_task_id |-> celery_task_id]

\* the parameters stored in a new row
Parameters(job_type, celery_task_id, channel_id) ==
    IF job_type = "scheduled_vehicle_update"
    THEN [channel_id |-> channel_id, force_update |-> FALSE,
          celery_task_id |-> celery_task_id]
    ELSE IF job_type = "scheduled_comment_crawl"
    THEN [max_vehicles |-> 20, celery_task_id |-> celery_task_id]
    ELSE [batch_size |-> 20, celery_task_id |-> celery_task_id]

\* containment of the probe in the stored parameters
Contains(parameters, probe) ==
    \A k \in DOMAIN probe : k \in DOMAIN parameters /\ parameters[k] = probe[k]

Matches_running_only(row, job_type, probe) ==
    /\ row.job_type = job_type
    /\ Contains(row.parameters, probe)
    /\ row.status = "running"

Matches_job_type_only(row, job_type, probe) ==
    row.job_type = job_type

\* the filter of the lookup query
Matches(row, job_type, probe) ==
    /\ row.job_type = job_type
    /\ Contains(row.parameters, probe)

\* .first(): the matching row with the lowest job_id, 0 if there is none
RECURSIVE FirstMatch(_, _, _, _)
FirstMatch(table, job_id, job_type, probe) ==
    IF job_id > Len(table) THEN 0
    ELSE IF Matches(table[job_id], job_type, probe) THEN job_id
    ELSE FirstMatch(table, job_id + 1, job_type, probe)

NewJob(job_type, celery_task_id, channel_id) ==
    [job_type |-> job_type, status |-> "running",
     parameters |-> Parameters(job_type, celery_task_id, channel_id),
     result_summary |-> "none"]

\* the table after the step: unchanged when a row is found, one more row otherwise
JobsAfterBegin(table, job_type, celery_task_id, channel_id) ==
    IF FirstMatch(table, 1, job_type, Probe(job_type, celery_task_id, channel_id)) # 0
    THEN table
    ELSE Append(table, NewJob(job_type, celery_task_id, channel_id))

\* the job_id the step leaves in the task
JobIdOfBegin(table, job_type, celery_task_id, channel_id) ==
    LET existing_job == FirstMatch(table, 1, job_type,
                                   Probe(job_type, celery_task_id, channel_id))
    IN IF existing_job # 0 THEN existing_job ELSE Len(table) + 1

\* one execution of the lookup-or-create step
Begin(job_type, celery_task_id, channel_id) ==
    /\ Len(ledger) < MaxCalls
    /\ \/ /\ processing_jobs' = JobsAfterBegin(processing_jobs, job_type,
                                               celery_task_id, channel_id)
          /\ ledger' = Append(ledger,
                 [job_type |-> job_type,
                  probe |-> Probe(job_type, celery_task_id, channel_id),
                  job_id |-> JobIdOfBegin(processing_jobs, job_type,
                                          celery_task_id, channel_id),
                  found_status |->
                      IF JobIdOfBegin(processing_jobs, job_type, celery_task_id,
                                      channel_id) \in DOMAIN processing_jobs
                      THEN processing_jobs[JobIdOfBegin(processing_jobs, job_type,
                                               celery_task_id, channel_id)].status
                      ELSE "none"])
       \/ \* the query or the commit raises: the task fails before it has a job_id
          /\ ledger' = Append(ledger,
                 [job_type |-> job_type,
                  probe |-> Probe(job_type, celery_task_id, channel_id),
                  job_id |-> 0, found_status |-> "none"])
          /\ UNCHANGED processing_jobs
    /\ UNCHANGED <<tasks, responses>>

\* the status updates at the end of a task
FinishJob(job_id, status) ==
    /\ job_id \in DOMAIN processing_jobs
    /\ processing_jobs[job_id].status = "running"
    /\ processing_jobs' = [processing_jobs EXCEPT ![job_id].status = status]
    /\ UNCHANGED <<ledger, tasks, responses>>

InitLedger ==
    /\ IdleFeatureVars
    /\ IdleRequests
    /\ IdleProcVars
    /\ IdleCrawlVars
    /\ processing_jobs = <<>>
    /\ ledger = <<>>
    /\ tasks = <<>>
    /\ responses = <<>>

NextLedger ==
    /\ \/ \E job_type \in JobTypes, celery_task_id \in TaskIds, channel_id \in ChannelIds :
             /\ job_type # "scheduled_vehicle_update" => channel_id = 1
             /\ Begin(job_type, celery_task_id, channel_id)
       \/ \E job_id \in DOMAIN processing_jobs, status \in {"completed", "failed"} :
             FinishJob(job_id, status)
    /\ UNCHANGED <<procVars, crawlVars, featureVars, requests>>

SpecLedger == InitLedger /\ [][NextLedger]_vars

----------------------------------------------------------------------------
(* The scheduled crawl: target selection and the loop over the selected vehicles *)

SchedVehicleIds == {1, 2, 3}

\* last_comment_crawled_at is kept as a rank: 0 is NULL, and only the order of
\* the timestamps is observable to the selection
Stamps(table) == {table[v].last_comment_crawled_at : v \in DOMAIN table} \ {0}

RankOf(table, t) == Cardinality({u \in Stamps(table) : u <= t})

Normalize(table) ==
    [v \in DOMAIN table |->
        [table[v] EXCEPT !.last_comment_crawled_at =
            IF @ = 0 THEN 0 ELSE RankOf(table, @)]]

\* datetime.now(): later than every stored timestamp
Now(table) == Cardinality(Stamps(table)) + 1

\* vehicle_detail.last_comment_crawled_at = datetime.now(); commit
record_crawl_time(table, v) ==
    Normalize([table EXCEPT ![v].last_comment_crawled_at = Now(Normalize(table))])

NeverCrawled(table) == {v \in DOMAIN table : table[v].last_comment_crawled_at = 0}

PreviouslyCrawled(table) == {v \in DOMAIN table : table[v].last_comment_crawled_at # 0}

\* the sequences of n distinct elements of S
Orderings(S, n) ==
    {s \in [1..n -> S] : \A i, j \in 1..n : i # j => s[i] # s[j]}

\* filter(last_comment_crawled_at IS NULL).limit(n): no ORDER BY, so any
\* min(n, count) of the rows in any order
uncrawled_query(table, limit) ==
    Orderings(NeverCrawled(table), Min(limit, Cardinality(NeverCrawled(table))))

OrderedBefore_desc(table, a, b) ==
    table[a].last_comment_crawled_at >= table[b].last_comment_crawled_at

\* order_by(asc(last_comment_crawled_at)): a may come before b
OrderedBefore(table, a, b) ==
    table[a].last_comment_crawled_at <= table[b].last_comment_crawled_at

\* filter(last_comment_crawled_at IS NOT NULL).order_by(asc(...)).limit(n)
oldest_query(table, limit) ==
    {s \in Orderings(PreviouslyCrawled(table),
                     Min(limit, Cardinality(PreviouslyCrawled(table)))) :
        /\ \A i, j \in DOMAIN s : i < j => OrderedBefore(table, s[i], s[j])
        /\ \A i \in DOMAIN s : \A v \in PreviouslyCrawled(table) \ Range(s) :
               OrderedBefore(table, s[i], v)}

\* the selection of scheduled_comment_crawl: the possible vehicles_to_crawl
select_crawl_targets(table, max_vehicles) ==
    {SubSeq(uncrawled_vehicles \o oldest_vehicles, 1,
            Min(max_vehicles, Len(uncrawled_vehicles \o oldest_vehicles))) :
        uncrawled_vehicles \in uncrawled_query(table, max_vehicles),
        oldest_vehicles \in
            IF Cardinality(NeverCrawled(table)) < max_vehicles
            THEN oldest_query(table, max_vehicles
                                     - Min(max_vehicles, Cardinality(NeverCrawled(table))))
            ELSE { <<>> }}

\* the query of the targets and the start of the loop
SchedSelect(max_vehicles) ==
    /\ sched.pc = "idle"
    /\ \E targets \in select_crawl_targets(vehicles, max_vehicles) :
          sched' = [sched EXCEPT
                      !.pc = IF targets = <<>> THEN "idle" ELSE "crawl",
                      !.outcome = IF targets = <<>> THEN "returned" ELSE "running",
                      !.max_vehicles = max_vehicles,
                      !.snapshot = vehicles,
                      !.vehicles_to_crawl = targets,
                      !.i = 1,
                      !.results = <<>>]
    /\ UNCHANGED <<raw_comments, vehicles, upstream, crawl>>

\* the query of the targets raises: the task fails
SchedSelectRaise ==
    /\ sched.pc = "idle"
    /\ sched' = [sched EXCEPT !.outcome = "raised"]
    /\ UNCHANGED <<raw_comments, vehicles, upstream, crawl>>

\* the call of crawl_new_comments for the current vehicle (max_pages=None)
SchedCrawlStart ==
    /\ sched.pc = "crawl"
    /\ crawl[1].pc = "idle"
    /\ CrawlStart(1, sched.vehicles_to_crawl[sched.i], 0, 1)
    /\ sched' = [sched EXCEPT !.attempted = @ \cup {sched.vehicles_to_crawl[sched.i]}]

\* the steps of the crawl the task is waiting for
SchedCrawlStep ==
    /\ sched.pc = "crawl"
    /\ \/ CountPages(1)
       \/ CollectPage(1)
       \/ ScrapeContents(1)
       \/ SaveNewComments(1)
    /\ UNCHANGED sched

\* end of one iteration of the loop over vehicles_to_crawl
NextVehicle(t, status) ==
    LET r == [t EXCEPT !.results = Append(@, status)] IN
    IF t.i = Len(t.vehicles_to_crawl)
    THEN [r EXCEPT !.pc = "idle", !.outcome = "returned"]
    ELSE [r EXCEPT !.i = @ + 1]

\* crawl_new_comments returned: the timestamp is written
SchedRecordSuccess ==
    /\ sched.pc = "crawl"
    /\ crawl[1].pc = "returned"
    /\ vehicles' = record_crawl_time(vehicles, sched.vehicles_to_crawl[sched.i])
    /\ sched' = NextVehicle(sched, "success")
    /\ crawl' = [crawl EXCEPT ![1] = IdleCrawl]
    /\ UNCHANGED <<raw_comments, upstream>>

\* crawl_new_comments returned, the write of the timestamp fails and is only logged
SchedRecordUpdateFails ==
    /\ sched.pc = "crawl"
    /\ crawl[1].pc = "returned"
    /\ sched' = NextVehicle(sched, "success")
    /\ crawl' = [crawl EXCEPT ![1] = IdleCrawl]
    /\ UNCHANGED <<raw_comments, vehicles, upstream>>

\* crawl_new_comments raised: the vehicle is recorded as failed
SchedRecordFailure ==
    /\ sched.pc = "crawl"
    /\ crawl[1].pc = "raised"
    /\ sched' = NextVehicle(sched, "failed")
    /\ crawl' = [crawl EXCEPT ![1] = IdleCrawl]
    /\ UNCHANGED <<raw_comments, vehicles, upstream>>

InitSched ==
    /\ IdleFeatureVars
    /\ IdleRequests
    /\ raw_comments = <<>>
    /\ processed_comments = <<>>
    /\ proc = [w \in Workers |-> IdleProc]
    /\ vehicles \in [SchedVehicleIds ->
                        [channel_config : {"ok", "missing"},
                         last_comment_crawled_at : 0..Cardinality(SchedVehicleIds)]]
    /\ vehicles = Normalize(vehicles)
    /\ upstream = [v \in SchedVehicleIds |-> IF v = 1 THEN << <<1>> >> ELSE << >>]
    /\ crawl = [c \in Crawlers |-> IdleCrawl]
    /\ sched = [pc |-> "idle", outcome |-> "none", max_vehicles |-> 0,
                snapshot |-> vehicles, vehicles_to_crawl |-> <<>>, i |-> 1,
                results |-> <<>>, attempted |-> {}]
    /\ IdleLedgerVars

SchedTask ==
    \/ SchedSelectRaise
    \/ SchedCrawlStart
    \/ SchedCrawlStep
    \/ SchedRecordSuccess
    \/ SchedRecordUpdateFails
    \/ SchedRecordFailure

NextSched ==
    /\ \/ \E max_vehicles \in 0..MaxVehicles : SchedSelect(max_vehicles)
       \/ SchedTask
    /\ UNCHANGED <<processed_comments, proc, ledgerVars, featureVars, requests>>

\* scheduled crawl runs, one after the other
SpecSched == InitSched /\ [][NextSched]_vars

\* the beat schedule: every run is triggered with max_vehicles >= 1
NextSchedFair ==
    /\ \/ \E max_vehicles \in 1..MaxVehicles : SchedSelect(max_vehicles)
       \/ SchedTask
    /\ UNCHANGED <<processed_comments, proc, ledgerVars, featureVars, requests>>

SchedSelectOk ==
    /\ \E max_vehicles \in 1..MaxVehicles : SchedSelect(max_vehicles)
    /\ UNCHANGED <<processed_comments, proc, ledgerVars, featureVars, requests>>

SchedSaveOk ==
    /\ SchedCrawlStep
    /\ crawl'[1].pc = "returned"
    /\ UNCHANGED <<processed_comments, proc, ledgerVars, featureVars, requests>>

SchedStampOk ==
    /\ SchedRecordSuccess
    /\ UNCHANGED <<processed_comments, proc, ledgerVars, featureVars, requests>>

\* The trigger keeps firing and a started task runs on (weak fairness); the store
\* and the network are not down for ever: the selection query, the save of a crawl
\* and the write of the timestamp succeed infinitely often when they are attempted
\* infinitely often (strong fairness).
FairnessSched ==
    /\ WF_vars(NextSchedFair)
    /\ SF_vars(SchedSelectOk)
    /\ SF_vars(SchedSaveOk)
    /\ SF_vars(SchedStampOk)

FairSpecSched == InitSched /\ [][NextSchedFair]_vars /\ FairnessSched

----------------------------------------------------------------------------
(* Properties of the scheduled crawl *)

StampOf(table, v) == table[v].last_comment_crawled_at

\* C6: on a snapshot with M never-crawled vehicles and distinct timestamps on the
\* others, the selection with max_vehicles = k has min(k, N) distinct vehicles;
\* for k <= M they are never-crawled; for k > M the first M are the never-crawled
\* ones and position M + n holds the n-th oldest previously-crawled vehicle.
C6_SelectionOrder ==
    LET snap == sched.snapshot
        k == sched.max_vehicles
        res == sched.vehicles_to_crawl
        M == Cardinality(NeverCrawled(snap))
        N == Cardinality(DOMAIN snap)
    IN (\A a, b \in PreviouslyCrawled(snap) :
            a # b => StampOf(snap, a) # StampOf(snap, b))
       => /\ Len(res) = Min(k, N)
          /\ \A i, j \in 1..Len(res) : i # j => res[i] # res[j]
          /\ k <= M => Range(res) \subseteq NeverCrawled(snap)
          /\ k > M =>
               /\ {res[i] : i \in 1..M} = NeverCrawled(snap)
               /\ \A i \in (M + 1)..Len(res) :
                     /\ res[i] \in PreviouslyCrawled(snap)
                     /\ Cardinality({v \in PreviouslyCrawled(snap) :
                                        StampOf(snap, v) < StampOf(snap, res[i])})
                        = i - M - 1

\* one never-crawled vehicle and two crawled at distinct times, all three selected
C6_Witness ==
    /\ sched.pc = "crawl"
    /\ sched.max_vehicles = 3
    /\ Cardinality(NeverCrawled(sched.snapshot)) = 1
    /\ Len(sched.vehicles_to_crawl) = 3
    /\ StampOf(sched.snapshot, sched.vehicles_to_crawl[2])
           < StampOf(sched.snapshot, sched.vehicles_to_crawl[3])

\* C7: under repeated scheduled runs with max_vehicles >= 1, every vehicle is
\* eventually crawled, also when the crawl of another vehicle always fails. Stated
\* in its weakest reading: a vehicle whose own channel is configured has a
\* timestamp, or a crawl of it is at least attempted, at some time.
C7_EveryVehicleEventuallyCrawled ==
    \A v \in SchedVehicleIds :
        vehicles[v].channel_config = "ok"
            => <>(v \in sched.attempted \/ StampOf(vehicles, v) # 0)

\* C20: the selection is a function of the snapshot and of max_vehicles: every
\* list the two queries can return for the snapshot the last selection read,
\* with the same max_vehicles, is the list that selection got, same vehicles in
\* the same order.
C20_SelectionDeterministic ==
    \A again \in select_crawl_targets(sched.snapshot, sched.max_vehicles) :
        again = sched.vehicles_to_crawl

----------------------------------------------------------------------------
(* The background tasks: how they are started, how each of them drives the
   row of processing_jobs it owns, and what the queue does when one ends *)

MaxTasks == 2         \* tasks sent to the queue

TaskNames ==
    {"update_vehicle_data_async", "crawl_raw_comments_async",
     "scheduled_comment_crawl", "scheduled_comment_semantic_processing"}

\* tasks started by the beat schedule or by the manual trigger endpoints; they
\* create their own row of processing_jobs
ScheduledTasks == {"scheduled_comment_crawl", "scheduled_comment_semantic_processing"}

\* max_retries of the task decorators
max_retries == 3

\* vehicles known to the registry when a crawl is requested through the API
RegisteredVehicles == {1}
RequestedVehicles == {1, 2}

NewTask(name, job_id, response) ==
    [name |-> name, pc |-> "sent", in_queue |-> TRUE, job_id |-> job_id,
     executions |-> 0, item_failed |-> FALSE, response |-> response]

\* RawCommentCrawlTaskSchema(...): task_id, job_id, channel_id,
\* identifier_on_channel, status, message and created_at are all required
RawCommentCrawlTaskSchema(fields) ==
    IF {"task_id", "job_id", "channel_id", "identifier_on_channel", "status",
        "message", "created_at"} \subseteq DOMAIN fields
    THEN [raised |-> FALSE, task_id |-> fields.task_id, status |-> fields.status,
          job_id |-> fields.job_id]
    ELSE [raised |-> TRUE, task_id |-> 0, status |-> "error", job_id |-> 0]

\* VehicleUpdateService._get_parser_mapping: the channel ids with a parser
parser_mapping == {1}

\* the channel ids of the rows of table channels
ChannelRows == {1, 2}

\* VehicleUpdateService.update_vehicles: the channel is validated, the row is
\* created with status pending and its job_id is handed to the task
update_vehicles(channel_id) ==
    /\ Len(tasks) < MaxTasks
    /\ channel_id \in parser_mapping
    /\ channel_id \in ChannelRows
    /\ processing_jobs' = Append(processing_jobs,
           [job_type |-> "vehicle_updating", status |-> "pending",
            parameters |-> [channel_id |-> channel_id, force_update |-> FALSE],
            result_summary |-> "none"])
    /\ tasks' = Append(tasks,
           NewTask("update_vehicle_data_async", Len(processing_jobs) + 1,
                   [raised |-> FALSE, task_id |-> Len(tasks) + 1, status |-> "pending",
                    job_id |-> Len(processing_jobs) + 1]))
    /\ UNCHANGED ledger

\* RawCommentUpdateService.crawl_new_comments_async: the vehicle is looked up,
\* the task is sent without a job_id, then the answer is built
crawl_new_comments_async(identifier_on_channel) ==
    /\ Len(tasks) < MaxTasks
    /\ identifier_on_channel \in RegisteredVehicles
    /\ tasks' = Append(tasks,
           NewTask("crawl_raw_comments_async", 0,
                   RawCommentCrawlTaskSchema(
                       [task_id |-> Len(tasks) + 1, channel_id |-> 1,
                        identifier_on_channel |-> identifier_on_channel,
                        status |-> "pending", message |-> "started",
                        created_at |-> 0])))
    /\ UNCHANGED <<processing_jobs, ledger, responses>>

\* the beat schedule (or a trigger endpoint) sends a scheduled task
SendScheduled(name) ==
    /\ Len(tasks) < MaxTasks
    /\ name \in ScheduledTasks
    /\ tasks' = Append(tasks, NewTask(name, 0,
                    [raised |-> FALSE, task_id |-> Len(tasks) + 1,
                     status |-> "pending", job_id |-> 0]))
    /\ UNCHANGED <<processing_jobs, ledger, responses>>

\* a status write on the row of a job: _update_processing_job_status, and the
\* db.get / assign / commit blocks of the scheduled tasks. Without a job_id or
\* without a row nothing is written; the summary is kept when none is given.
SetJobStatus(table, job_id, status, result_summary) ==
    IF job_id \in DOMAIN table
    THEN [table EXCEPT ![job_id].status = status,
                       ![job_id].result_summary =
                           IF result_summary = "none" THEN @ ELSE result_summary]
    ELSE table

\* a status write whose exception is caught and logged inside the task: the
\* write happens, or the store refuses it and the table stays as it is
SwallowedWrite(table, job_id, status, result_summary) ==
    {SetJobStatus(table, job_id, status, result_summary), table}

\* the worker takes the message of task t and calls the task function:
\* crawl_raw_comments_async and update_vehicle_data_async first mark the job running
ApiTaskStart(t) ==
    /\ tasks[t].in_queue
    /\ tasks[t].name \notin ScheduledTasks
    /\ processing_jobs' \in SwallowedWrite(processing_jobs, tasks[t].job_id,
                                           "running", "none")
    /\ tasks' = [tasks EXCEPT ![t].in_queue = FALSE, ![t].executions = @ + 1,
                              ![t].pc = "body"]
    /\ UNCHANGED <<ledger, responses>>

\* the scheduled tasks first look up or create their row
ScheduledBegin(t) ==
    /\ tasks[t].in_queue
    /\ tasks[t].name \in ScheduledTasks
    /\ \/ /\ processing_jobs' = JobsAfterBegin(processing_jobs, tasks[t].name, t, 1)
          /\ tasks' = [tasks EXCEPT
                 ![t].in_queue = FALSE, ![t].executions = @ + 1,
                 ![t].job_id = JobIdOfBegin(processing_jobs, tasks[t].name, t, 1),
                 ![t].pc = IF tasks[t].name = "scheduled_comment_crawl"
                           THEN "select" ELSE "progress"]
       \/ \* the lookup or the insert raises: re-raised into the outer handler
          /\ tasks' = [tasks EXCEPT
                 ![t].in_queue = FALSE, ![t].executions = @ + 1,
                 ![t].pc = IF tasks[t].name = "scheduled_comment_crawl"
                           THEN "failing" ELSE "failing_outer"]
          /\ UNCHANGED processing_jobs
    /\ UNCHANGED <<ledger, responses>>

\* scheduled_comment_crawl: the selection of the vehicles
TaskSelect(t) ==
    /\ tasks[t].pc = "select"
    /\ \E next \in {"body", "completing", "failing"} :
          tasks' = [tasks EXCEPT ![t].pc = next]
    /\ UNCHANGED <<processing_jobs, ledger, responses>>

\* scheduled_comment_semantic_processing: update_state and the statistics that
\* precede the batch, outside the inner try
TaskProgress(t) ==
    /\ tasks[t].pc = "progress"
    /\ \E next \in {"body", "failing_outer"} :
          tasks' = [tasks EXCEPT ![t].pc = next]
    /\ UNCHANGED <<processing_jobs, ledger, responses>>

\* the work of the task. A vehicle, a page or a comment that fails is recorded
\* in the result and the work goes on; an exception that leaves the work
\* reaches the handler of the task.
TaskBody(t) ==
    /\ tasks[t].pc = "body"
    /\ \/ \E item_failed \in BOOLEAN :
             tasks' = [tasks EXCEPT ![t].pc = "completing",
                                    ![t].item_failed = item_failed]
       \/ tasks' = [tasks EXCEPT ![t].pc =
              IF tasks[t].name = "scheduled_comment_semantic_processing"
              THEN "failing_inner" ELSE "failing"]
    /\ UNCHANGED <<processing_jobs, ledger, responses>>

\* the write of status completed, then the return of the result
TaskComplete(t) ==
    /\ tasks[t].pc = "completing"
    /\ processing_jobs' \in SwallowedWrite(processing_jobs, tasks[t].job_id,
                                           "completed", "summary")
    /\ tasks' = [tasks EXCEPT ![t].pc =
           IF tasks[t].name = "scheduled_comment_semantic_processing"
           THEN "finalize" ELSE "returned"]
    /\ UNCHANGED <<ledger, responses>>

\* scheduled_comment_semantic_processing: update_state(state='SUCCESS') inside
\* the inner try, then return
TaskFinalize(t) ==
    /\ tasks[t].pc = "finalize"
    /\ \E next \in {"returned", "failing_inner"} :
          tasks' = [tasks EXCEPT ![t].pc = next]
    /\ UNCHANGED <<processing_jobs, ledger, responses>>

\* the handler that marks the job failed and re-raises
TaskFail(t) ==
    /\ tasks[t].pc \in {"failing", "failing_inner"}
    /\ processing_jobs' \in SwallowedWrite(processing_jobs, tasks[t].job_id,
                                           "failed", "error")
    /\ tasks' = [tasks EXCEPT ![t].pc =
           IF tasks[t].pc = "failing_inner" THEN "failing_outer" ELSE "raised"]
    /\ UNCHANGED <<ledger, responses>>

\* scheduled_comment_semantic_processing: the outer handler reports FAILURE to
\* the result backend and re-raises; it does not touch the job
TaskOuterExcept(t) ==
    /\ tasks[t].pc = "failing_outer"
    /\ tasks' = [tasks EXCEPT ![t].pc = "raised"]
    /\ UNCHANGED <<processing_jobs, ledger, responses>>

InitTask ==
    /\ IdleFeatureVars
    /\ IdleRequests
    /\ IdleProcVars
    /\ IdleCrawlVars
    /\ processing_jobs = <<>>
    /\ ledger = <<>>
    /\ tasks = <<>>
    /\ responses = <<>>

NextTask ==
    /\ \/ \E channel_id \in ChannelIds :
             update_vehicles(channel_id) /\ UNCHANGED responses
       \/ \E identifier_on_channel \in RequestedVehicles :
             crawl_new_comments_async(identifier_on_channel)
       \/ \E name \in ScheduledTasks : SendScheduled(name)
       \/ \E t \in DOMAIN tasks :
             \/ ApiTaskStart(t)
             \/ ScheduledBegin(t)
             \/ TaskSelect(t)
             \/ TaskProgress(t)
             \/ TaskBody(t)
             \/ TaskComplete(t)
             \/ TaskFinalize(t)
             \/ TaskFail(t)
             \/ TaskOuterExcept(t)
    /\ UNCHANGED <<procVars, crawlVars, featureVars, requests>>

SpecTask == InitTask /\ [][NextTask]_vars

\* task_time_limit=30 * 60: the worker ends the execution of a task that runs
\* longer, wherever it is; no handler of the task runs, and the message, which
\* was acknowledged when the execution started, is not delivered again
TimeLimitExceeded(t) ==
    /\ tasks[t].pc \notin {"sent", "returned", "raised", "killed"}
    /\ tasks' = [tasks EXCEPT ![t].pc = "killed"]
    /\ UNCHANGED <<processing_jobs, ledger, responses>>

NextTaskKill ==
    \/ NextTask
    \/ /\ \E t \in DOMAIN tasks : TimeLimitExceeded(t)
       /\ UNCHANGED <<procVars, crawlVars, featureVars, requests>>

\* the tasks under the hard time limit of the queue
SpecTaskKill == InitTask /\ [][NextTaskKill]_vars

----------------------------------------------------------------------------
(* Properties of the background tasks and of the rows they own *)

Ended(t) == tasks[t].pc \in {"returned", "raised"}

OwnsRow(t) == tasks[t].job_id \in DOMAIN processing_jobs

\* C12: in every step, no row of processing_jobs disappears, a row that appears
\* has status pending, and a status only changes from pending to running, from
\* running to completed or from running to failed.
C12_JobLifecycle ==
    [][/\ Len(processing_jobs') >= Len(processing_jobs)
       /\ \A j \in DOMAIN processing_jobs' :
             IF j \in DOMAIN processing_jobs
             THEN /\ processing_jobs'[j].job_type = processing_jobs[j].job_type
                  /\ \/ processing_jobs'[j].status = processing_jobs[j].status
                     \/ <<processing_jobs[j].status, processing_jobs'[j].status>> \in
                            { <<"pending", "running">>, <<"running", "completed">>,
                              <<"running", "failed">> }
             ELSE processing_jobs'[j].status = "pending"]_vars

\* C13: a task that raised while it owned a row has left the row in status
\* failed, with the text of the exception as its result summary.
C13_RaisedTaskMarksJobFailed ==
    \A t \in DOMAIN tasks :
        (tasks[t].pc = "raised" /\ OwnsRow(t)) =>
            /\ processing_jobs[tasks[t].job_id].status = "failed"
            /\ processing_jobs[tasks[t].job_id].result_summary = "error"

\* C14: once a task has returned or raised, the row it owns is completed or failed.
C14_EndedTaskLeavesTerminalJob ==
    \A t \in DOMAIN tasks :
        (Ended(t) /\ OwnsRow(t)) =>
            processing_jobs[tasks[t].job_id].status \in {"completed", "failed"}

\* C15: a task that raised and has been executed at most max_retries times has a
\* message in the queue for its next execution; no task is executed more than
\* 1 + max_retries times; a task whose only failures were single vehicles,
\* pages or comments returns and is not sent again.
C15_RaisedTaskIsRetried ==
    \A t \in DOMAIN tasks :
        /\ (tasks[t].pc = "raised" /\ tasks[t].executions <= max_retries)
               => tasks[t].in_queue
        /\ tasks[t].executions <= 1 + max_retries
        /\ (tasks[t].pc = "returned" /\ tasks[t].item_failed) => ~tasks[t].in_queue

\* C30: once a crawl task that owns a row has ended, and the crawl of a vehicle
\* raised in it (a configuration error or a failed save, which the crawl service
\* re-raises), the row is in status failed with the error as its result summary,
\* and it is not in status completed.
C30_CrawlErrorFailsJob ==
    \A t \in DOMAIN tasks :
        (/\ tasks[t].name \in {"scheduled_comment_crawl", "crawl_raw_comments_async"}
         /\ Ended(t)
         /\ OwnsRow(t)
         /\ tasks[t].item_failed
             \/ (tasks[t].name = "crawl_raw_comments_async" /\ tasks[t].pc = "raised"))
        => /\ processing_jobs[tasks[t].job_id].status = "failed"
           /\ processing_jobs[tasks[t].job_id].result_summary = "error"

\* C33: in every step, the row of a task the hard time limit has killed, if the
\* row is in status running, is still in status running after the step,
\* whatever the other tasks and requests do.
C33_KilledTaskLeavesJobRunning ==
    [][\A t \in DOMAIN tasks :
          (/\ tasks[t].pc = "killed"
           /\ OwnsRow(t)
           /\ processing_jobs[tasks[t].job_id].status = "running")
          => processing_jobs'[tasks[t].job_id].status = "running"]_vars

\* a task was killed with its row running, and a task of the same name sent
\* after it has looked up its own row and completed it
C33_Witness ==
    \E t, u \in DOMAIN tasks :
        /\ t < u
        /\ tasks[t].name = tasks[u].name
        /\ tasks[t].pc = "killed"
        /\ OwnsRow(t)
        /\ processing_jobs[tasks[t].job_id].status = "running"
        /\ tasks[u].pc = "returned"
        /\ OwnsRow(u)
        /\ processing_jobs[tasks[u].job_id].status = "completed"

\* C36: in every step, a row of processing_jobs whose status is completed or
\* failed keeps its status.
C36_TerminalJobStatusIsFinal ==
    [][\A job_id \in DOMAIN processing_jobs :
          processing_jobs[job_id].status \in {"completed", "failed"}
          => processing_jobs'[job_id].status = processing_jobs[job_id].status]_vars

\* C17: a crawl requested for a registered vehicle has sent exactly one task and
\* answered with the job_id of a row of processing_jobs, which is the row the
\* task writes its status to.
C17_TriggerCrawlReturnsJob ==
    \A t \in DOMAIN tasks :
        tasks[t].name = "crawl_raw_comments_async" =>
            /\ ~tasks[t].response.raised
            /\ tasks[t].response.task_id = t
            /\ tasks[t].response.job_id \in DOMAIN processing_jobs
            /\ tasks[t].job_id = tasks[t].response.job_id

----------------------------------------------------------------------------
(* A crawl followed by a classification batch, no call raising *)

\* the remote listing of the scenario: two pages with 3 and 2 items
ScenarioListing == << <<1, 2, 3>>, <<4, 5>> >>

\* the limit of the batch that follows the crawl
ScenarioLimit == 10

\* the item whose body holds the one chunk the feature is within threshold of
MatchingItem == 2

\* the engine's answers of the scenario for the comment being processed: its
\* chunks are accepted exactly when it is the first chunk of the matching item
ScenarioSearch(raw_comment_id, search) ==
    \A k \in DOMAIN search :
        (search[k] # <<>> /\ Accept(search[k][1].score))
            <=> (raw_comments[raw_comment_id].identifier_on_channel = MatchingItem /\ k = 1)

InitScenario ==
    /\ IdleFeatureVars
    /\ IdleRequests
    /\ raw_comments \in
          { << [vehicle_channel_id_fk |-> 1, identifier_on_channel |-> id,
                comment_content |-> body, processing_status |-> status] >> :
              id \in {1, 4}, body \in DetailBodies, status \in {"NEW", "COMPLETED"} }
    /\ processed_comments = SeedRows(raw_comments, 1)
    /\ proc = [w \in Workers |-> IdleProc]
    /\ vehicles = [v \in VehicleIds |->
                      [channel_config |-> "ok", last_comment_crawled_at |-> 0]]
    /\ upstream = [v \in VehicleIds |-> ScenarioListing]
    /\ crawl = [c \in Crawlers |-> IdleCrawl]
    /\ sched = <<>>
    /\ IdleLedgerVars

\* the crawl of vehicle 1, every request answered
ScenarioCrawl ==
    /\ \/ \E requested \in MaxPagesRequests \ {1} : CrawlStart(1, 1, requested, 1)
       \/ CountPages(1) /\ crawl'[1].fetch_ok
       \/ CollectPage(1) /\ crawl'[1].fetch_ok
       \/ /\ ScrapeContents(1)
          /\ \A k \in DOMAIN crawl'[1].new_comments :
                crawl'[1].new_comments[k].identifier_on_channel = MatchingItem
                    => crawl'[1].new_comments[k].comment_content # <<>>
       \/ SaveNewComments(1) /\ crawl'[1].pc = "returned"
    /\ UNCHANGED <<processed_comments, proc, sched, ledgerVars, featureVars, requests>>

\* the batch that follows, every call into the store and the engine answered
ScenarioBatch ==
    /\ crawl[1].pc = "returned"
    /\ \/ ProcessBatchBegin(1, ScenarioLimit) /\ proc'[1].pc # "raised"
       \/ UpdateProcessing(1) /\ proc'[1].pc # "except"
       \/ /\ ProcessChunks(1)
          /\ proc'[1].pc # "except"
          /\ ScenarioSearch(CurrentComment(1), proc'[1].search)
       \/ SaveResults(1) /\ proc'[1].pc # "except"
       \/ UpdateCompleted(1) /\ proc'[1].pc # "except"
       \/ UpdateSkipped(1) /\ proc'[1].pc # "except"
    /\ UNCHANGED <<crawlVars, ledgerVars, featureVars, requests>>

NextScenario == ScenarioCrawl \/ ScenarioBatch

SpecScenario == InitScenario /\ [][NextScenario]_vars

\* C18: the crawl found and saved 4 drafts, all stored in state NEW when the
\* batch begins; the batch of limit 10 returns processed_count 1, failed_count 0,
\* skipped_count = the other NEW comments, total_results 1, and has written
\* exactly one row of processed_comments.
C18_ScenarioCounts ==
    /\ crawl[1].pc = "returned" =>
          /\ crawl[1].history[1].found = 4 /\ crawl[1].history[1].saved = 4
          /\ Len(raw_comments) = 5
          /\ proc[1].pc = "idle" =>
                \A r \in 2..5 : raw_comments[r].processing_status = "NEW"
    /\ proc[1].pc = "done" =>
          LET others == Cardinality({r \in 1..5 : StatusOf(r) = "SKIPPED"}) IN
          /\ proc[1].summary[1].processed_count = 1
          /\ proc[1].summary[1].failed_count = 0
          /\ proc[1].summary[1].skipped_count = others
          /\ proc[1].summary[1].total_comments = others + 1
          /\ others >= 3
          /\ proc[1].summary[1].total_results = 1
          /\ Cardinality({r \in 1..Len(processed_comments) :
                             processed_comments[r].job_id_fk = proc[1].job_id}) = 1
          /\ \A r \in 2..5 : StatusOf(r) \in {"COMPLETED", "SKIPPED"}

\* the stored comment was NEW as well: five comments selected, four skipped
C18_Witness ==
    /\ proc[1].pc = "done"
    /\ Len(proc[1].pending_comments) = 5
    /\ proc[1].summary[1].skipped_count = 4
    /\ proc[1].summary[1].processed_count = 1
    /\ Len(processed_comments) = 1

----------------------------------------------------------------------------
(* The vehicle-update endpoints: POST /vehicle-update/update starts the
   background task, POST /vehicle-update/update/direct runs the update in the
   request *)

MaxRequests == 3      \* requests answered by the two endpoints

\* channel_id of UpdateRequestSchema (ge=1)
RequestChannelIds == {1, 2, 3}

\* identifiers the parser can extract from the channel
CatalogVehicles == {1, 2}

\* raise ValueError(...) of the channel checks shared by update_vehicles and
\* update_vehicles_direct: "none" when the request passes both
ChannelError(channel_id) ==
    IF channel_id \notin parser_mapping THEN "unsupported_channel_id"
    ELSE IF channel_id \notin ChannelRows THEN "channel_not_in_database"
    ELSE "none"

\* the text of the ValueError: the kind of the error, then the channel id
ErrorText(channel_id) == <<ChannelError(channel_id), channel_id>>

\* an answer: the HTTP status code, the detail of an HTTPException, and status
\* and error_message of the body when the body is a result or a task
Response(endpoint, channel_id, status_code, detail, status, error_message) ==
    [endpoint |-> endpoint, channel_id |-> channel_id, status_code |-> status_code,
     detail |-> detail, status |-> status, error_message |-> error_message]

\* _save_vehicles_to_db: a row for each extracted vehicle that has none, with
\* last_comment_crawled_at NULL; the rows that exist keep their crawl time
save_vehicles_to_db(table, extracted) ==
    [v \in DOMAIN table \cup extracted |->
        IF v \in DOMAIN table THEN table[v]
        ELSE [channel_config |-> "ok", last_comment_crawled_at |-> 0]]

\* the endpoint update_vehicles_async: ValueError is answered with 400 and its
\* text, any other exception with 500, the task schema with 200
PostUpdate(channel_id) ==
    /\ Len(responses) < MaxRequests
    /\ \/ /\ ChannelError(channel_id) # "none"
          /\ responses' = Append(responses,
                 Response("update", channel_id, 400, ErrorText(channel_id), "none", <<>>))
          /\ UNCHANGED <<processing_jobs, tasks>>
       \/ /\ update_vehicles(channel_id)
          /\ responses' = Append(responses,
                 Response("update", channel_id, 200, <<>>, "pending", <<>>))
       \/ /\ ChannelError(channel_id) = "none"
          /\ responses' = Append(responses,
                 Response("update", channel_id, 500, <<"start_failed">>, "none", <<>>))
          /\ UNCHANGED <<processing_jobs, tasks>>
    /\ UNCHANGED <<ledger, vehicles>>

\* the endpoint update_vehicles_direct over the service method of the same
\* name: whatever the method raises inside its try is caught by the method,
\* which returns a result with status failed; the endpoint returns that result
PostUpdateDirect(channel_id) ==
    /\ Len(responses) < MaxRequests
    /\ \/ /\ ChannelError(channel_id) # "none"
          /\ responses' = Append(responses,
                 Response("update/direct", channel_id, 200, <<>>, "failed",
                          <<"update_failed">> \o ErrorText(channel_id)))
          /\ UNCHANGED vehicles
       \/ /\ ChannelError(channel_id) = "none"
          /\ responses' = Append(responses,
                 Response("update/direct", channel_id, 200, <<>>, "failed",
                          <<"update_failed", "extract_or_save">>))
          /\ UNCHANGED vehicles
       \/ /\ ChannelError(channel_id) = "none"
          /\ \E extracted \in SUBSET CatalogVehicles :
                vehicles' = save_vehicles_to_db(vehicles, extracted)
          /\ responses' = Append(responses,
                 Response("update/direct", channel_id, 200, <<>>, "completed", <<>>))
    /\ UNCHANGED <<processing_jobs, ledger, tasks>>

InitVehicleApi ==
    /\ IdleFeatureVars
    /\ IdleRequests
    /\ IdleProcVars
    /\ vehicles = [v \in {1} |-> [channel_config |-> "ok", last_comment_crawled_at |-> 0]]
    /\ upstream = <<>>
    /\ crawl = <<>>
    /\ sched = <<>>
    /\ processing_jobs = <<>>
    /\ ledger = <<>>
    /\ tasks = <<>>
    /\ responses = <<>>

NextVehicleApi ==
    /\ \E channel_id \in RequestChannelIds :
          \/ PostUpdate(channel_id)
          \/ PostUpdateDirect(channel_id)
    /\ UNCHANGED <<procVars, upstream, crawl, sched, featureVars, requests>>

SpecVehicleApi == InitVehicleApi /\ [][NextVehicleApi]_vars

\* C21: every request that names a channel id without a parser, on either
\* endpoint, is answered with status code 400 and a detail that names the
\* unsupported channel id, and the step that answers it starts no task, creates
\* no job and changes no vehicle row.
C21_UnsupportedChannelRejected ==
    [][\A channel_id \in RequestChannelIds \ parser_mapping :
          (Len(responses') = Len(responses) + 1
              /\ responses'[Len(responses')].channel_id = channel_id)
          => /\ responses'[Len(responses')].status_code = 400
             /\ responses'[Len(responses')].detail
                    = <<"unsupported_channel_id", channel_id>>
             /\ UNCHANGED <<vehicles, processing_jobs, tasks>>]_vars

----------------------------------------------------------------------------
(* The entry points of a crawl: the tasks scheduled_comment_crawl and
   manual_comment_crawl, which loop over vehicles with the synchronous service,
   and the task crawl_raw_comments_async and POST /raw-comments/crawl/direct,
   which crawl one vehicle with the asynchronous service. The timestamps of
   vehicle_channel_details are kept as they are written. *)

MaxEntries == 3       \* invocations of the entry points

EntryPoints ==
    {"scheduled_comment_crawl", "manual_comment_crawl",
     "crawl_raw_comments_async", "crawl_new_comments_direct"}

\* the entry points that write the crawl time after crawl_new_comments returned
LoopEntries == {"scheduled_comment_crawl", "manual_comment_crawl"}

\* datetime.now(timezone.utc): later than every stored timestamp
utc_now(table) ==
    1 + CHOOSE m \in Stamps(table) \cup {0} : \A u \in Stamps(table) : u <= m

update_crawl_time_all(table, v) ==
    [u \in DOMAIN table |->
        [table[u] EXCEPT !.last_comment_crawled_at = utc_now(table)]]

\* vehicle_detail.last_comment_crawled_at = datetime.now(timezone.utc); commit
update_crawl_time(table, v) ==
    [table EXCEPT ![v].last_comment_crawled_at = utc_now(table)]

\* the vehicles of manual_comment_crawl: the rows with the given ids, or, with no
\* id given, up to 10 rows never crawled; no ORDER BY in either query
manual_targets(table, vehicle_channel_ids) ==
    IF vehicle_channel_ids # {}
    THEN Orderings(DOMAIN table \cap vehicle_channel_ids,
                   Cardinality(DOMAIN table \cap vehicle_channel_ids))
    ELSE uncrawled_query(table, 10)

IdleEntry ==
    [pc |-> "idle", entry |-> "none", requested |-> 0, vehicles_to_crawl |-> <<>>,
     i |-> 1, results |-> <<>>, runs |-> 0]

\* the start of an entry point over its vehicles; requested is max_pages
EntryStart(entry, targets, requested) ==
    /\ sched.pc = "idle"
    /\ sched.runs < MaxEntries
    /\ sched' = [sched EXCEPT
                   !.pc = IF targets = <<>> THEN "idle" ELSE "crawl",
                   !.entry = entry,
                   !.requested = requested,
                   !.vehicles_to_crawl = targets,
                   !.i = 1,
                   !.results = <<>>,
                   !.runs = @ + 1]
    /\ UNCHANGED <<raw_comments, vehicles, upstream, crawl>>

\* scheduled_comment_crawl(max_vehicles): max_pages=None
ScheduledCrawlStart(max_vehicles) ==
    \E targets \in select_crawl_targets(vehicles, max_vehicles) :
        EntryStart("scheduled_comment_crawl", targets, 0)

\* manual_comment_crawl(vehicle_channel_ids, max_pages_per_vehicle)
ManualCrawlStart(vehicle_channel_ids, max_pages_per_vehicle) ==
    \E targets \in manual_targets(vehicles, vehicle_channel_ids) :
        EntryStart("manual_comment_crawl", targets, max_pages_per_vehicle)

\* crawl_raw_comments_async and the direct endpoint: one registered vehicle
SingleCrawlStart(entry, v, max_pages) ==
    /\ entry \in EntryPoints \ LoopEntries
    /\ v \in DOMAIN vehicles
    /\ EntryStart(entry, <<v>>, max_pages)

\* the call of crawl_new_comments for the current vehicle
EntryCrawlStart ==
    /\ sched.pc = "crawl"
    /\ crawl[1].pc = "idle"
    /\ CrawlStart(1, sched.vehicles_to_crawl[sched.i], sched.requested, 1)
    /\ UNCHANGED sched

\* the steps of the synchronous service
EntryCrawlStepSync ==
    /\ sched.pc = "crawl"
    /\ sched.entry \in LoopEntries
    /\ \/ CountPages(1)
       \/ CollectPage(1)
       \/ ScrapeContents(1)
       \/ SaveNewComments(1)
    /\ UNCHANGED sched

\* the steps of the asynchronous service
EntryCrawlStepAsync ==
    /\ sched.pc = "crawl"
    /\ sched.entry \notin LoopEntries
    /\ \/ CountPagesAsync(1)
       \/ CollectPageAsync(1)
       \/ ScrapeContents(1)
       \/ SaveNewComments(1)
    /\ UNCHANGED sched

\* the result of the crawl of the current vehicle, and the next vehicle if any
EntryNext(t, status) ==
    LET r == [t EXCEPT !.results = Append(@,
                 [vehicle_channel_id |-> t.vehicles_to_crawl[t.i], status |-> status])]
    IN IF t.i = Len(t.vehicles_to_crawl)
       THEN [r EXCEPT !.pc = "idle"]
       ELSE [r EXCEPT !.i = @ + 1]

\* the loop: crawl_new_comments returned and the crawl time is written
EntryRecordSuccess ==
    /\ sched.pc = "crawl"
    /\ sched.entry \in LoopEntries
    /\ crawl[1].pc = "returned"
    /\ vehicles' = update_crawl_time(vehicles, sched.vehicles_to_crawl[sched.i])
    /\ sched' = EntryNext(sched, "success")
    /\ crawl' = [crawl EXCEPT ![1] = IdleCrawl]
    /\ UNCHANGED <<raw_comments, upstream>>

\* the loop: the write of the crawl time raises, which is only logged
EntryRecordUpdateFails ==
    /\ sched.pc = "crawl"
    /\ sched.entry \in LoopEntries
    /\ crawl[1].pc = "returned"
    /\ sched' = EntryNext(sched, "success")
    /\ crawl' = [crawl EXCEPT ![1] = IdleCrawl]
    /\ UNCHANGED <<raw_comments, vehicles, upstream>>

\* the loop: crawl_new_comments raised, the vehicle is recorded as failed
EntryRecordFailure ==
    /\ sched.pc = "crawl"
    /\ sched.entry \in LoopEntries
    /\ crawl[1].pc = "raised"
    /\ sched' = EntryNext(sched, "failed")
    /\ crawl' = [crawl EXCEPT ![1] = IdleCrawl]
    /\ UNCHANGED <<raw_comments, vehicles, upstream>>

\* the task and the endpoint: the result of crawl_new_comments is returned
EntryReturn ==
    /\ sched.pc = "crawl"
    /\ sched.entry \notin LoopEntries
    /\ crawl[1].pc = "returned"
    /\ sched' = EntryNext(sched, "success")
    /\ crawl' = [crawl EXCEPT ![1] = IdleCrawl]
    /\ UNCHANGED <<raw_comments, vehicles, upstream>>

\* the task and the endpoint: the exception of crawl_new_comments goes on
EntryRaise ==
    /\ sched.pc = "crawl"
    /\ sched.entry \notin LoopEntries
    /\ crawl[1].pc = "raised"
    /\ sched' = EntryNext(sched, "failed")
    /\ crawl' = [crawl EXCEPT ![1] = IdleCrawl]
    /\ UNCHANGED <<raw_comments, vehicles, upstream>>

\* a vehicle update, at any moment: _save_vehicles_to_db
EntryVehicleUpdate ==
    /\ \E extracted \in SUBSET CatalogVehicles :
          /\ vehicles' = save_vehicles_to_db(vehicles, extracted)
          /\ vehicles' # vehicles
    /\ UNCHANGED <<raw_comments, upstream, crawl, sched>>

InitEntry ==
    /\ IdleFeatureVars
    /\ IdleRequests
    /\ IdleProcVars
    /\ vehicles \in [{1} -> [channel_config : {"ok", "missing"},
                             last_comment_crawled_at : {0}]]
    /\ upstream = [v \in CatalogVehicles |-> IF v = 1 THEN << <<1>> >> ELSE << >>]
    /\ crawl = [c \in Crawlers |-> IdleCrawl]
    /\ sched = IdleEntry
    /\ IdleLedgerVars

NextEntry ==
    /\ \/ \E max_vehicles \in 0..MaxVehicles : ScheduledCrawlStart(max_vehicles)
       \/ \E vehicle_channel_ids \in SUBSET CatalogVehicles,
             max_pages_per_vehicle \in MaxPagesRequests :
                ManualCrawlStart(vehicle_channel_ids, max_pages_per_vehicle)
       \/ \E entry \in EntryPoints, v \in CatalogVehicles,
             max_pages \in MaxPagesRequests :
                SingleCrawlStart(entry, v, max_pages)
       \/ EntryCrawlStart
       \/ EntryCrawlStepSync
       \/ EntryCrawlStepAsync
       \/ EntryRecordSuccess
       \/ EntryRecordUpdateFails
       \/ EntryRecordFailure
       \/ EntryReturn
       \/ EntryRaise
       \/ EntryVehicleUpdate
    /\ UNCHANGED <<processed_comments, proc, ledgerVars, featureVars, requests>>

SpecEntry == InitEntry /\ [][NextEntry]_vars

(* Properties of the crawl time *)

\* C31: in every step, a vehicle whose last_comment_crawled_at changes is the
\* vehicle of the crawl the step ends, and that crawl has returned; a step that
\* ends a crawl that raised changes no vehicle's last_comment_crawled_at.
C31_CrawlTimeWrittenOnlyAfterSuccess ==
    [][\A v \in DOMAIN vehicles \cap DOMAIN vehicles' :
          vehicles'[v].last_comment_crawled_at # vehicles[v].last_comment_crawled_at
          => /\ sched.pc = "crawl"
             /\ sched.vehicles_to_crawl[sched.i] = v
             /\ crawl[1].vehicle = v
             /\ crawl[1].pc = "returned"
             /\ crawl'[1].pc = "idle"]_vars

\* a run over two vehicles has ended, the crawl of one failed and left it never
\* crawled, the crawl of the other returned and its crawl time is written
C31_Witness ==
    /\ sched.pc = "idle"
    /\ \E i, j \in DOMAIN sched.results :
          /\ sched.results[i].status = "failed"
          /\ vehicles[sched.results[i].vehicle_channel_id].last_comment_crawled_at = 0
          /\ sched.results[j].status = "success"
          /\ vehicles[sched.results[j].vehicle_channel_id].last_comment_crawled_at # 0

\* C32: a vehicle whose crawl an entry point has finished successfully has a
\* non-null last_comment_crawled_at: it is not in the never-crawled partition
\* of the selection.
C32_CrawledVehicleLeavesNeverCrawled ==
    \A i \in DOMAIN sched.results :
        sched.results[i].status = "success"
        => sched.results[i].vehicle_channel_id \notin NeverCrawled(vehicles)

----------------------------------------------------------------------------
(* The taxonomy of product features, and the vector store the service object
   of each worker process builds from it *)

MaxRevisions == 2     \* descriptions a feature code can carry, one after the other

FeatureCodes == {1, 2}

\* rows of product_features; feature_description 0 is an empty description
FeatureRows == [feature_code : FeatureCodes, feature_description : 0..MaxRevisions]

\* feature_code is unique in the table
FeatureTables ==
    {table \in SUBSET FeatureRows :
        \A a, b \in table : a.feature_code = b.feature_code => a = b}

\* _load_product_features_from_db: a document for every row with a description
load_product_features_from_db(table) ==
    {feature \in table : feature.feature_description # 0}

\* self.vector_store = None
None == <<>>

\* _create_vector_store: Chroma.from_documents over the loaded documents; a
\* store is the one-element sequence of its documents
create_vector_store(table) == << load_product_features_from_db(table) >>

\* get_vector_store: built at the first call, the stored one afterwards
get_vector_store(vector_store, table) ==
    IF vector_store = None THEN create_vector_store(table) ELSE vector_store

\* semantic_search_service = SemanticSearchService(), at the import of the module
SemanticSearchService == [vector_store |-> None, answer |-> <<>>]

\* scripts/import_product_features.py: the rows are deleted and the rows of the
\* file are inserted
ImportProductFeatures(table) ==
    /\ table # product_features
    /\ product_features' = table
    /\ UNCHANGED search_service

\* a classification task in worker process w, the table not changing while it
\* runs: search_similar_features(query_text, k=1) answers with a document of
\* the store get_vector_store returns. With no document to build a store from,
\* _create_vector_store raises and the object stays as it is.
ClassificationTask(w) ==
    LET vector_store == get_vector_store(search_service[w].vector_store,
                                         product_features)
    IN /\ vector_store[1] # {}
       /\ \E document \in vector_store[1] :
             search_service' = [search_service EXCEPT
                 ![w] = [vector_store |-> vector_store, answer |-> <<document>>]]
       /\ UNCHANGED product_features

\* worker process w is started again: the module is imported anew
WorkerStart(w) ==
    /\ search_service[w] # SemanticSearchService
    /\ search_service' = [search_service EXCEPT ![w] = SemanticSearchService]
    /\ UNCHANGED product_features

InitTaxonomy ==
    /\ IdleProcVars
    /\ IdleCrawlVars
    /\ IdleLedgerVars
    /\ IdleRequests
    /\ product_features \in FeatureTables
    /\ search_service = [w \in Workers |-> SemanticSearchService]

NextTaxonomy ==
    /\ \/ \E table \in FeatureTables : ImportProductFeatures(table)
       \/ \E w \in Workers : ClassificationTask(w)
       \/ \E w \in Workers : WorkerStart(w)
    /\ UNCHANGED <<procVars, crawlVars, ledgerVars, requests>>

SpecTaxonomy == InitTaxonomy /\ [][NextTaxonomy]_vars

\* C34: in every step that is a classification task of a worker process, the
\* documents the task matches against are those of the rows product_features
\* holds when the task runs, and so is the document it answers with.
C34_TaskUsesCurrentTaxonomy ==
    [][\A w \in Workers :
          ClassificationTask(w)
          => /\ search_service'[w].vector_store
                    = << load_product_features_from_db(product_features) >>
             /\ search_service'[w].answer[1]
                    \in load_product_features_from_db(product_features)]_vars

----------------------------------------------------------------------------
(* The asynchronous vehicle update step by step: the request handled by
   VehicleUpdateService.update_vehicles in its own transaction, and the task
   update_vehicle_data_async in a worker. processing_jobs holds the committed
   rows, the only ones a session other than the writer's can see or update. *)

RequestOpen(r) == requests[r].pc \in {"flushed", "sent"}

\* update_vehicles up to db.flush(): the channel passes both checks, the row is
\* added to the transaction of the request and gets its job_id
RequestFlush(channel_id) ==
    /\ Len(requests) < MaxRequests
    /\ \A r \in DOMAIN requests : ~RequestOpen(r)
    /\ ChannelError(channel_id) = "none"
    /\ requests' = Append(requests,
           [channel_id |-> channel_id, pc |-> "flushed",
            job_id |-> Len(processing_jobs) + 1, task_id |-> 0])
    /\ UNCHANGED <<processing_jobs, tasks, vehicles>>

\* update_vehicle_data_async.delay(..., job_id=processing_job.job_id): the task
\* is in the queue; or the broker refuses it and the transaction is rolled back
RequestDelay(r) ==
    /\ requests[r].pc = "flushed"
    /\ \/ /\ tasks' = Append(tasks,
                 NewTask("update_vehicle_data_async", requests[r].job_id,
                         [raised |-> FALSE, task_id |-> Len(tasks) + 1,
                          status |-> "pending", job_id |-> requests[r].job_id]))
          /\ requests' = [requests EXCEPT ![r].pc = "sent",
                                          ![r].task_id = Len(tasks) + 1]
       \/ /\ requests' = [requests EXCEPT ![r].pc = "failed"]
          /\ UNCHANGED tasks
    /\ UNCHANGED <<processing_jobs, vehicles>>

\* await db.commit(): the row, in status pending, becomes visible
RequestCommit(r) ==
    /\ requests[r].pc = "sent"
    /\ processing_jobs' = Append(processing_jobs,
           [job_type |-> "vehicle_updating", status |-> "pending",
            parameters |-> [channel_id |-> requests[r].channel_id,
                            force_update |-> FALSE],
            result_summary |-> "none"])
    /\ requests' = [requests EXCEPT ![r].pc = "committed"]
    /\ UNCHANGED <<tasks, vehicles>>

\* the work of update_vehicle_data_async: update_vehicles_direct returns a
\* result with status completed, or catches what the extraction or the save
\* raised and returns a result with status failed; the task reads only the
\* counts of the result. update_state before the call may raise.
UpdateTaskBody(t) ==
    /\ tasks[t].pc = "body"
    /\ tasks[t].name = "update_vehicle_data_async"
    /\ \/ /\ \E extracted \in SUBSET CatalogVehicles :
                vehicles' = save_vehicles_to_db(vehicles, extracted)
          /\ tasks' = [tasks EXCEPT ![t].pc = "completing"]
       \/ /\ tasks' = [tasks EXCEPT ![t].pc = "completing", ![t].item_failed = TRUE]
          /\ UNCHANGED vehicles
       \/ /\ tasks' = [tasks EXCEPT ![t].pc = "failing"]
          /\ UNCHANGED vehicles
    /\ UNCHANGED <<processing_jobs, requests>>

InitUpdate ==
    /\ IdleProcVars
    /\ IdleFeatureVars
    /\ IdleRequests
    /\ vehicles = [v \in {1} |-> [channel_config |-> "ok", last_comment_crawled_at |-> 0]]
    /\ upstream = <<>>
    /\ crawl = <<>>
    /\ sched = <<>>
    /\ IdleLedgerVars

NextUpdate ==
    /\ \/ \E channel_id \in RequestChannelIds : RequestFlush(channel_id)
       \/ \E r \in DOMAIN requests : RequestDelay(r)
       \/ \E r \in DOMAIN requests : RequestCommit(r)
       \/ \E t \in DOMAIN tasks : ApiTaskStart(t) /\ UNCHANGED <<vehicles, requests>>
       \/ \E t \in DOMAIN tasks : UpdateTaskBody(t)
       \/ \E t \in DOMAIN tasks : TaskComplete(t) /\ UNCHANGED <<vehicles, requests>>
       \/ \E t \in DOMAIN tasks : TaskFail(t) /\ UNCHANGED <<vehicles, requests>>
    /\ UNCHANGED <<procVars, upstream, crawl, sched, ledger, responses, featureVars>>

SpecUpdate == InitUpdate /\ [][NextUpdate]_vars

\* C37: the row of every task that carries a job id is committed: from the
\* moment the task is in the queue, the job id is the id of a row every session
\* sees, so that no status update of the task goes to a row that is not there.
C37_JobCommittedBeforeTaskSent ==
    \A t \in DOMAIN tasks :
        tasks[t].job_id # 0 => tasks[t].job_id \in DOMAIN processing_jobs

\* C38: once the update task has ended, its row is completed only if the update
\* succeeded, and is failed if the update failed.
C38_FailedUpdateFailsJob ==
    \A t \in DOMAIN tasks :
        (/\ tasks[t].name = "update_vehicle_data_async"
         /\ Ended(t)
         /\ OwnsRow(t))
        => /\ processing_jobs[tasks[t].job_id].status = "completed"
                => ~tasks[t].item_failed
           /\ tasks[t].item_failed
                => processing_jobs[tasks[t].job_id].status = "failed"

====
